---- MODULE Spec2Model ----
(***************************************************************************)
(* Directory-listing cache and resilient-fetch pipeline of samftp_cli:     *)
(* cache.py (CacheManager) and ftp_client.py (fetch_html_async,            *)
(* fetch_html_with_retry, fetch_html_cached, parse_html), with the         *)
(* navigation loop of main.py and the BookmarkManager of bookmarks.py.     *)
(*                                                                         *)
(* Time is an integer clock (time.time()), strings are URLs, a Python      *)
(* Optional is a set with at most one element, a dict is a function.       *)
(***************************************************************************)
EXTENDS Integers, Sequences, FiniteSets, TLC

VARIABLES now, ttl_seconds, memory_cache, cache_file, ret, calls, faults,
          procs, nav, ready, bookmark_manager

vars == <<now, ttl_seconds, memory_cache, cache_file, ret, calls, faults,
          procs, nav, ready, bookmark_manager>>

(* ---------------------------- bounds ---------------------------------- *)

\* the clock runs from 0 to MaxTime
MaxTime == 2
\* CacheManager(ttl_seconds) is constructed with a ttl in 0..MaxTtl
MaxTtl == 1
\* storage faults (IOError on open/read/write/unlink) injected per run
MaxFaults == 1
\* fetch_html_with_retry is called directly with max_retries in 0..MaxRetriesArg
MaxRetriesArg == 4
\* the navigation loop appends to session.history up to this length
MaxHistory == 2

\* default of the max_retries parameter
DefaultMaxRetries == 3

(* ---------------------------- data ------------------------------------ *)

None == {}
Some(x) == {x}

Urls == {"http://h/a/", "http://h/a"}

Callers == {1, 2}

Folder(name, url) == [name |-> name, url |-> url]
File(name, url, size) == [name |-> name, url |-> url, size |-> size]

(* ---------------------------- urljoin --------------------------------- *)

RECURSIVE LastSlash(_, _)
\* index of the last "/" among the first n characters of s, 0 if none
LastSlash(s, n) ==
    IF n = 0 THEN 0
    ELSE IF SubSeq(s, n, n) = "/" THEN n ELSE LastSlash(s, n - 1)

StartsWith(s, p) == Len(s) >= Len(p) /\ SubSeq(s, 1, Len(p)) = p
EndsWith(s, p) == Len(s) >= Len(p) /\ SubSeq(s, Len(s) - Len(p) + 1, Len(s)) = p

\* length of "scheme://host" in an absolute http URL
RECURSIVE AuthorityEnd(_, _)
AuthorityEnd(s, i) ==
    IF i > Len(s) THEN Len(s)
    ELSE IF SubSeq(s, i, i) = "/" THEN i - 1 ELSE AuthorityEnd(s, i + 1)

SchemeLen == Len("http://")

Authority(u) == SubSeq(u, 1, AuthorityEnd(u, SchemeLen + 1))
Path(u) == SubSeq(u, AuthorityEnd(u, SchemeLen + 1) + 1, Len(u))

\* directory part of a path: everything up to and including the last "/"
DirOf(p) == SubSeq(p, 1, LastSlash(p, Len(p)))

\* parent of a directory path that ends with "/"; the root is its own parent
ParentDir(d) ==
    IF Len(d) <= 1 THEN "/" ELSE
    LET up == SubSeq(d, 1, LastSlash(d, Len(d) - 1)) IN
    IF up = "" THEN "/" ELSE up

urljoin(base, href) ==
    IF StartsWith(href, "http://") THEN href
    ELSE IF href = "" THEN base
    ELSE IF StartsWith(href, "/") THEN Authority(base) \o href
    ELSE LET dir == IF DirOf(Path(base)) = "" THEN "/" ELSE DirOf(Path(base)) IN
         IF href = ".." \/ href = "../" THEN Authority(base) \o ParentDir(dir)
         ELSE IF StartsWith(href, "../")
              THEN Authority(base) \o ParentDir(dir) \o SubSeq(href, 4, Len(href))
         ELSE Authority(base) \o dir \o href

(* ---------------------------- parse_html ------------------------------ *)

Anchor(text, href) == [text |-> text, href |-> href]
Cell(class, anchors) == [class |-> class, anchors |-> anchors]

\* no name cell at all
DocEmpty == <<Cell("fb-s", <<Anchor("size", Some("x/"))>>)>>
\* a folder, a file and a parent link, in two name cells
DocListing ==
    <<Cell("fb-n", <<Anchor("c", Some("c/")), Anchor("up", Some("../"))>>),
      Cell("fb-s", <<Anchor("skip", Some("s/"))>>),
      Cell("fb-n", <<Anchor("d.mp4", Some("c/d.mp4"))>>)>>
\* a name cell whose first anchor carries no href attribute
DocNoHref ==
    <<Cell("fb-n", <<Anchor("anchor", None), Anchor("e", Some("e/"))>>)>>

Bodies == {DocEmpty, DocListing, DocNoHref}

\* a file, a folder and a parent link, in that order, in one name cell
DocExample ==
    <<Cell("fb-n", <<Anchor("d.mp4", Some("c/d.mp4")), Anchor("c", Some("c/")),
                     Anchor("up", Some(".."))>>)>>
\* folders and files mixed over two name cells, with a link into a sibling of
\* the parent, a path from the root, an absolute URL under an anchor without
\* text, and a name that begins with two dots
DocOrder ==
    <<Cell("fb-n", <<Anchor("b", Some("b/")), Anchor("1.txt", Some("1.txt")),
                     Anchor("x", Some("../x/")), Anchor("a", Some("a/"))>>),
      Cell("fb-s", <<Anchor("9 KB", Some("1.txt"))>>),
      Cell("fb-n", <<Anchor("2.txt", Some("/abs/2.txt")), Anchor("", Some("http://o/z/")),
                     Anchor("..hidden", Some("..hidden"))>>)>>

\* the documents parse_html is applied to when it is called on its own
ParseBodies == Bodies \cup {DocExample, DocOrder}

RECURSIVE find_all_a(_, _)
\* the anchors of the td cells of class fb-n, in document order
find_all_a(doc, i) ==
    IF i > Len(doc) THEN <<>>
    ELSE (IF doc[i].class = "fb-n" THEN doc[i].anchors ELSE <<>>)
         \o find_all_a(doc, i + 1)

Parsed(exc, folders, files) == [exc |-> exc, folders |-> folders, files |-> files]

RECURSIVE parse_anchors(_, _, _, _, _)
parse_anchors(base_url, as, i, folders, files) ==
    IF i > Len(as) THEN Parsed(None, folders, files)
    ELSE IF as[i].href = None
         THEN Parsed(Some("KeyError"), <<>>, <<>>)      \* a_tag['href']
    ELSE LET href == CHOOSE h \in as[i].href : TRUE
             value == as[i].text
             absolute_url == urljoin(base_url, href)
         IN  IF StartsWith(href, "..")
             THEN parse_anchors(base_url, as, i + 1, folders, files)
             ELSE IF EndsWith(href, "/")
             THEN parse_anchors(base_url, as, i + 1,
                                Append(folders, Folder(value, absolute_url)), files)
             ELSE parse_anchors(base_url, as, i + 1, folders,
                                Append(files, File(value, absolute_url, None)))

parse_html(base_url, response_html) ==
    parse_anchors(base_url, find_all_a(response_html, 1), 1,
                  <<Folder("..", urljoin(base_url, ".."))>>, <<>>)

(* ---------------------------- fetch_html_async ------------------------ *)

\* the statuses a request of a retried call comes back with
Statuses == {200, 400, 401, 403, 404, 500}

\* the statuses fetch_html_async is applied to when it is called on its own
StatusCodes == {200, 204, 399, 400, 401, 402, 403, 404, 499, 500, 503}

Http(status, body) == [kind |-> "http", status |-> status, body |-> body]
Transport(kind) == [kind |-> kind, status |-> 0, body |-> <<>>]

\* what one request can come back with: a response with a status, or a
\* failure of the transport (asyncio.TimeoutError, ClientConnectorError,
\* any other aiohttp.ClientError)
ResponsesWith(statuses) ==
    {Http(s, b) : s \in {t \in statuses : t < 400}, b \in Bodies}
    \cup {Http(s, <<>>) : s \in {t \in statuses : t >= 400}}
    \cup {Transport(k) : k \in {"timeout", "connector", "client_error"}}

Responses == ResponsesWith(Statuses)

Fetched(exc, body) == [exc |-> exc, body |-> body]

\* mutant: the 404 branch is missing, 404 falls through to `status >= 400`
fetch_html_async_no_404(resp) ==
    IF resp.kind = "timeout" THEN Fetched(Some("TimeoutError"), <<>>)
    ELSE IF resp.kind = "connector" THEN Fetched(Some("ConnectionError"), <<>>)
    ELSE IF resp.kind = "client_error" THEN Fetched(Some("ConnectionError"), <<>>)
    ELSE IF resp.status = 401 THEN Fetched(Some("AuthenticationError"), <<>>)
    ELSE IF resp.status = 403 THEN Fetched(Some("AuthenticationError"), <<>>)
    ELSE IF resp.status >= 500 THEN Fetched(Some("ServerError"), <<>>)
    ELSE IF resp.status >= 400 THEN Fetched(Some("ConnectionError"), <<>>)
    ELSE Fetched(None, resp.body)

fetch_html_async(resp) ==
    IF resp.kind = "timeout" THEN Fetched(Some("TimeoutError"), <<>>)
    ELSE IF resp.kind = "connector" THEN Fetched(Some("ConnectionError"), <<>>)
    ELSE IF resp.kind = "client_error" THEN Fetched(Some("ConnectionError"), <<>>)
    ELSE IF resp.status = 401 THEN Fetched(Some("AuthenticationError"), <<>>)
    ELSE IF resp.status = 403 THEN Fetched(Some("AuthenticationError"), <<>>)
    ELSE IF resp.status = 404 THEN Fetched(Some("NotFoundError"), <<>>)
    ELSE IF resp.status >= 500 THEN Fetched(Some("ServerError"), <<>>)
    ELSE IF resp.status >= 400 THEN Fetched(Some("ConnectionError"), <<>>)
    ELSE Fetched(None, resp.body)

\* mutant: `except FTPClientError`
Retryable_all ==
    {"ConnectionError", "TimeoutError", "ServerError",
     "AuthenticationError", "NotFoundError"}

\* mutant: ConnectionError is not caught by the retry loop
Retryable_no_connection == {"TimeoutError", "ServerError"}

\* except (ConnectionError, TimeoutError, ServerError)
Retryable == {"ConnectionError", "TimeoutError", "ServerError"}

FTPClientError ==
    {"ConnectionError", "TimeoutError", "ServerError",
     "AuthenticationError", "NotFoundError"}

RECURSIVE Pow2(_)
Pow2(n) == IF n = 0 THEN 1 ELSE 2 * Pow2(n - 1)

(* ---------------------------- CacheManager ---------------------------- *)

EmptyDict == [k \in {} |-> {}]
DictSet(d, k, v) == [x \in (DOMAIN d) \cup {k} |-> IF x = k THEN v ELSE d[x]]
DictDel(d, k) == [x \in (DOMAIN d) \ {k} |-> d[x]]

\* the cache file: missing, not JSON, or a JSON document key -> entry
FileMissing == [state |-> "missing", doc |-> EmptyDict]
FileCorrupt == [state |-> "corrupt", doc |-> EmptyDict]
FileJson(doc) == [state |-> "json", doc |-> doc]

\* one storage operation meets at most one fault: the read raises IOError, the
\* open for writing (or the unlink) raises IOError, or the write raises
\* IOError after the file was truncated
IOChoices == {"ok", "read_fail", "write_fail", "write_trunc"}

\* mutant: a trailing "/" is stripped before hashing
_url_to_hash_normalized(url) ==
    "sha256:" \o (IF EndsWith(url, "/") THEN SubSeq(url, 1, Len(url) - 1) ELSE url)

_url_to_hash(url) == "sha256:" \o url

_load_cache_from_disk(file, io) ==
    IF file.state = "missing" THEN EmptyDict
    ELSE IF file.state = "corrupt" \/ io = "read_fail" THEN EmptyDict
    ELSE file.doc

\* mutant: the document is merged into what the file holds when it is written
_save_cache_to_disk_merge(file, cache_data, io) ==
    IF io = "write_fail" THEN file
    ELSE IF io = "write_trunc" THEN FileCorrupt
    ELSE FileJson([k \in (DOMAIN cache_data)
                          \cup (IF file.state = "json" THEN DOMAIN file.doc ELSE {}) |->
                      IF k \in DOMAIN cache_data THEN cache_data[k] ELSE file.doc[k]])

_save_cache_to_disk(file, cache_data, io) ==
    IF io = "write_fail" THEN file
    ELSE IF io = "write_trunc" THEN FileCorrupt
    ELSE FileJson(cache_data)

\* mutant: an entry is served one second past its ttl
_is_expired_late(timestamp, t, ttl) == (t - timestamp) > ttl + 1

\* mutant: `>=`, an entry exactly ttl old counts as expired
_is_expired_ge(timestamp, t, ttl) == (t - timestamp) >= ttl

_is_expired(timestamp, t, ttl) == (t - timestamp) > ttl

\* {'name': f.name, 'url': f.url}
ToDict(f) == [name |-> f.name, url |-> f.url]
ToDicts(fs) == [i \in 1..Len(fs) |-> ToDict(fs[i])]
\* Folder(**f), File(**f)
FoldersOf(entry) == [i \in 1..Len(entry.folders) |->
                        Folder(entry.folders[i].name, entry.folders[i].url)]
FilesOf(entry) == [i \in 1..Len(entry.files) |->
                      File(entry.files[i].name, entry.files[i].url, None)]

Absent == [hit |-> FALSE, folders |-> <<>>, files |-> <<>>]
Hit(entry) == [hit |-> TRUE, folders |-> FoldersOf(entry), files |-> FilesOf(entry)]

Store(mem, file, val) == [mem |-> mem, file |-> file, val |-> val]

\* mutant: a hit in the file is returned without `self._memory_cache[url_hash] = entry`
get_cached_listing_no_promote(mem, file, t, ttl, url, io) ==
    LET url_hash == _url_to_hash(url)
        inMem == url_hash \in DOMAIN mem
        memFresh == inMem /\ ~_is_expired(mem[url_hash].timestamp, t, ttl)
        mem1 == IF inMem /\ ~memFresh THEN DictDel(mem, url_hash) ELSE mem
        cache_data == _load_cache_from_disk(file, io)
    IN  IF memFresh THEN Store(mem, file, Hit(mem[url_hash]))
        ELSE IF url_hash \in DOMAIN cache_data
        THEN IF ~_is_expired(cache_data[url_hash].timestamp, t, ttl)
             THEN Store(mem1, file, Hit(cache_data[url_hash]))
             ELSE Store(mem1,
                        _save_cache_to_disk(file, DictDel(cache_data, url_hash), io),
                        Absent)
        ELSE Store(mem1, file, Absent)

\* mutant: a hit renews the timestamp of the in-process entry
get_cached_listing_touch(mem, file, t, ttl, url, io) ==
    LET url_hash == _url_to_hash(url)
        inMem == url_hash \in DOMAIN mem
        memFresh == inMem /\ ~_is_expired(mem[url_hash].timestamp, t, ttl)
        mem1 == IF inMem /\ ~memFresh THEN DictDel(mem, url_hash) ELSE mem
        cache_data == _load_cache_from_disk(file, io)
    IN  IF memFresh
        THEN Store(DictSet(mem, url_hash, [mem[url_hash] EXCEPT !.timestamp = t]), file,
                   Hit(mem[url_hash]))
        ELSE IF url_hash \in DOMAIN cache_data
        THEN IF ~_is_expired(cache_data[url_hash].timestamp, t, ttl)
             THEN Store(DictSet(mem1, url_hash,
                                [cache_data[url_hash] EXCEPT !.timestamp = t]), file,
                        Hit(cache_data[url_hash]))
             ELSE Store(mem1,
                        _save_cache_to_disk(file, DictDel(cache_data, url_hash), io),
                        Absent)
        ELSE Store(mem1, file, Absent)

\* mutant: the purge of an expired file entry drops every expired entry
get_cached_listing_purge_all(mem, file, t, ttl, url, io) ==
    LET url_hash == _url_to_hash(url)
        inMem == url_hash \in DOMAIN mem
        memFresh == inMem /\ ~_is_expired(mem[url_hash].timestamp, t, ttl)
        mem1 == IF inMem /\ ~memFresh THEN DictDel(mem, url_hash) ELSE mem
        cache_data == _load_cache_from_disk(file, io)
    IN  IF memFresh THEN Store(mem, file, Hit(mem[url_hash]))
        ELSE IF url_hash \in DOMAIN cache_data
        THEN IF ~_is_expired(cache_data[url_hash].timestamp, t, ttl)
             THEN Store(DictSet(mem1, url_hash, cache_data[url_hash]), file,
                        Hit(cache_data[url_hash]))
             ELSE Store(mem1,
                        _save_cache_to_disk(file,
                           [k \in {x \in DOMAIN cache_data :
                                     ~_is_expired(cache_data[x].timestamp, t, ttl)} |->
                               cache_data[k]], io),
                        Absent)
        ELSE Store(mem1, file, Absent)

get_cached_listing(mem, file, t, ttl, url, io) ==
    LET url_hash == _url_to_hash(url)
        inMem == url_hash \in DOMAIN mem
        memFresh == inMem /\ ~_is_expired(mem[url_hash].timestamp, t, ttl)
        mem1 == IF inMem /\ ~memFresh THEN DictDel(mem, url_hash) ELSE mem
        cache_data == _load_cache_from_disk(file, io)
    IN  IF memFresh THEN Store(mem, file, Hit(mem[url_hash]))
        ELSE IF url_hash \in DOMAIN cache_data
        THEN IF ~_is_expired(cache_data[url_hash].timestamp, t, ttl)
             THEN Store(DictSet(mem1, url_hash, cache_data[url_hash]), file,
                        Hit(cache_data[url_hash]))
             ELSE Store(mem1,
                        _save_cache_to_disk(file, DictDel(cache_data, url_hash), io),
                        Absent)
        ELSE Store(mem1, file, Absent)

NewEntry(url, t, folders, files) ==
    [url |-> url, timestamp |-> t,
     folders |-> ToDicts(folders), files |-> ToDicts(files)]

\* mutant: `cache_data.setdefault(url_hash, entry)`, the file keeps the entry
\* it already holds for the key
cache_listing_keep_first(mem, file, t, url, folders, files, io) ==
    LET url_hash == _url_to_hash(url)
        entry == NewEntry(url, t, folders, files)
        cache_data == _load_cache_from_disk(file, io)
    IN  Store(DictSet(mem, url_hash, entry),
              _save_cache_to_disk(file,
                 IF url_hash \in DOMAIN cache_data THEN cache_data
                 ELSE DictSet(cache_data, url_hash, entry), io),
              None)

\* mutant: the in-process map is updated only once the file has been written
cache_listing_persist_first(mem, file, t, url, folders, files, io) ==
    LET url_hash == _url_to_hash(url)
        entry == NewEntry(url, t, folders, files)
        cache_data == _load_cache_from_disk(file, io)
    IN  Store(IF io \in {"write_fail", "write_trunc"} THEN mem
              ELSE DictSet(mem, url_hash, entry),
              _save_cache_to_disk(file, DictSet(cache_data, url_hash, entry), io),
              None)

\* mutant: the entry records the url without its trailing "/"
cache_listing_entry_url_stripped(mem, file, t, url, folders, files, io) ==
    LET url_hash == _url_to_hash(url)
        entry == NewEntry(IF EndsWith(url, "/") THEN SubSeq(url, 1, Len(url) - 1) ELSE url,
                          t, folders, files)
        cache_data == _load_cache_from_disk(file, io)
    IN  Store(DictSet(mem, url_hash, entry),
              _save_cache_to_disk(file, DictSet(cache_data, url_hash, entry), io),
              None)

cache_listing(mem, file, t, url, folders, files, io) ==
    LET url_hash == _url_to_hash(url)
        entry == NewEntry(url, t, folders, files)
        cache_data == _load_cache_from_disk(file, io)
    IN  Store(DictSet(mem, url_hash, entry),
              _save_cache_to_disk(file, DictSet(cache_data, url_hash, entry), io),
              None)

\* mutant: the key is removed from the file only
invalidate_cache_file_only(mem, file, url, io) ==
    LET url_hash == _url_to_hash(url)
        cache_data == _load_cache_from_disk(file, io)
    IN  Store(mem,
              IF url_hash \in DOMAIN cache_data
              THEN _save_cache_to_disk(file, DictDel(cache_data, url_hash), io)
              ELSE file,
              None)

\* mutant: the key is removed from the in-process map only
invalidate_cache_memory_only(mem, file, url, io) ==
    Store(DictDel(mem, _url_to_hash(url)), file, None)

invalidate_cache(mem, file, url, io) ==
    LET url_hash == _url_to_hash(url)
        cache_data == _load_cache_from_disk(file, io)
    IN  Store(DictDel(mem, url_hash),
              IF url_hash \in DOMAIN cache_data
              THEN _save_cache_to_disk(file, DictDel(cache_data, url_hash), io)
              ELSE file,
              None)

\* mutant: the file is left in place
clear_all_cache_keep_file(mem, file, io) == Store(EmptyDict, file, None)

clear_all_cache(mem, file, io) ==
    Store(EmptyDict,
          IF file.state # "missing" /\ io # "write_fail" THEN FileMissing ELSE file,
          None)

(* the size of the cache file: json.dump(cache_data, f, indent=2) writes one
   key or item per line, nested by two spaces a level *)

\* the text of a cache file that is not JSON
CorruptText == "{not json"

\* hashlib.sha256(...).hexdigest() is 64 characters long
HexDigestLen == 64

RECURSIVE NumLen(_)
\* decimal digits of n
NumLen(n) == IF n < 10 THEN 1 ELSE 1 + NumLen(n \div 10)

\* time.time() is a float: a whole number of seconds t is written "t.0"
FloatLen(t) == NumLen(t) + Len(".0")

\* a string in quotes
StrLen(str) == Len(str) + 2

\* "\n" and the indentation of nesting level
NewLine(level) == 1 + 2 * level

\* {"name": ..., "url": ...} at nesting level
ItemLen(item, level) ==
    1 + NewLine(level + 1) + StrLen("name") + 2 + StrLen(item.name)
    + 1 + NewLine(level + 1) + StrLen("url") + 2 + StrLen(item.url)
    + NewLine(level) + 1

RECURSIVE ItemsLen(_, _, _)
\* the items i.. of a list at nesting level, each on a line of its own,
\* separated by ","
ItemsLen(items, i, level) ==
    IF i > Len(items) THEN 0
    ELSE NewLine(level + 1) + ItemLen(items[i], level + 1)
         + (IF i < Len(items) THEN 1 ELSE 0) + ItemsLen(items, i + 1, level)

\* a list of items: "[]", or "[" items "\n" indentation "]"
ListLen(items, level) ==
    IF items = <<>> THEN 2
    ELSE 1 + ItemsLen(items, 1, level) + NewLine(level) + 1

\* an entry, the value of a key of the document (nesting level 1)
EntryLen(entry) ==
    1 + NewLine(2) + StrLen("url") + 2 + StrLen(entry.url)
    + 1 + NewLine(2) + StrLen("timestamp") + 2 + FloatLen(entry.timestamp)
    + 1 + NewLine(2) + StrLen("folders") + 2 + ListLen(entry.folders, 2)
    + 1 + NewLine(2) + StrLen("files") + 2 + ListLen(entry.files, 2)
    + NewLine(1) + 1

RECURSIVE KeysLen(_, _)
\* the keys of the document with their entries, separated by ","
KeysLen(doc, keys) ==
    IF keys = {} THEN 0
    ELSE LET k == CHOOSE x \in keys : TRUE
         IN  NewLine(1) + HexDigestLen + 2 + 2 + EntryLen(doc[k])
             + (IF keys # {k} THEN 1 ELSE 0) + KeysLen(doc, keys \ {k})

\* the document: "{}", or "{" keys "\n}"
JsonLen(doc) ==
    IF DOMAIN doc = {} THEN 2
    ELSE 1 + KeysLen(doc, DOMAIN doc) + NewLine(0) + 1

\* self.cache_file.stat().st_size
st_size(file) ==
    IF file.state = "corrupt" THEN Len(CorruptText) ELSE JsonLen(file.doc)

ExpiredKeys(cache_data, t, ttl) ==
    {k \in DOMAIN cache_data : _is_expired(cache_data[k].timestamp, t, ttl)}

\* mutant: the entries of the in-process map are counted too
get_cache_stats_with_memory(mem, file, t, ttl, io) ==
    LET cache_data == _load_cache_from_disk(file, io)
        total_entries == Cardinality(DOMAIN cache_data \cup DOMAIN mem)
        expired_entries == Cardinality(ExpiredKeys(cache_data, t, ttl))
        cache_size == IF file.state # "missing" THEN st_size(file) ELSE 0
    IN  Store(mem, file,
              [total_entries |-> total_entries,
               valid_entries |-> total_entries - expired_entries,
               expired_entries |-> expired_entries,
               cache_size_bytes |-> cache_size,
               ttl_seconds |-> ttl])

get_cache_stats(mem, file, t, ttl, io) ==
    LET cache_data == _load_cache_from_disk(file, io)
        total_entries == Cardinality(DOMAIN cache_data)
        expired_entries == Cardinality(ExpiredKeys(cache_data, t, ttl))
        cache_size == IF file.state # "missing" THEN st_size(file) ELSE 0
    IN  Store(mem, file,
              [total_entries |-> total_entries,
               valid_entries |-> total_entries - expired_entries,
               expired_entries |-> expired_entries,
               cache_size_bytes |-> cache_size,
               ttl_seconds |-> ttl])

\* mutant: the cleaned document is saved whatever the count
cleanup_expired_always_saves(mem, file, t, ttl, io) ==
    LET cache_data == _load_cache_from_disk(file, io)
        cleaned_data == [k \in (DOMAIN cache_data) \ ExpiredKeys(cache_data, t, ttl)
                            |-> cache_data[k]]
        removed_count == Cardinality(DOMAIN cache_data) - Cardinality(DOMAIN cleaned_data)
    IN  Store(mem, _save_cache_to_disk(file, cleaned_data, io), removed_count)

cleanup_expired(mem, file, t, ttl, io) ==
    LET cache_data == _load_cache_from_disk(file, io)
        cleaned_data == [k \in (DOMAIN cache_data) \ ExpiredKeys(cache_data, t, ttl)
                            |-> cache_data[k]]
        removed_count == Cardinality(DOMAIN cache_data) - Cardinality(DOMAIN cleaned_data)
    IN  Store(mem,
              IF removed_count > 0 THEN _save_cache_to_disk(file, cleaned_data, io)
              ELSE file,
              removed_count)

(* ---------------------------- callers --------------------------------- *)

NoResult == [kind |-> "none", exc |-> "", folders |-> <<>>, files |-> <<>>, body |-> <<>>]
Returned(folders, files, body) ==
    [kind |-> "return", exc |-> "", folders |-> folders, files |-> files, body |-> body]
Raised(exc) ==
    [kind |-> "raise", exc |-> exc, folders |-> <<>>, files |-> <<>>, body |-> <<>>]

\* one call of fetch_html_cached ("cached"), of fetch_html_with_retry
\* ("retry") or of the synchronous wrapper fetch_html ("sync"): where it is suspended, its arguments and locals, and what it has
\* done so far: requests issued, sleeps awaited, lookups made, and how the last
\* request came back ("ok" or the error fetch_html_async raised); pre is the
\* store as the call found it
IdleCall ==
    [pc |-> "idle", kind |-> "", url |-> "", force_refresh |-> FALSE,
     max_retries |-> 0, attempt |-> 0, last_error |-> None,
     fetches |-> 0, sleeps |-> <<>>, lookups |-> 0, last_outcome |-> None,
     result |-> NoResult,
     pre |-> [mem |-> EmptyDict, file |-> FileMissing]]

\* the store operation that has just run: what it was called with, the tiers
\* as it found them and what it returned; NoRet once the clock has moved on or
\* another call has started
NoRet == [op |-> "none", url |-> "", val |-> None,
          pre |-> [mem |-> EmptyDict, file |-> FileMissing]]
Ret(op, url, val) == [op |-> op, url |-> url, val |-> val,
                      pre |-> [mem |-> memory_cache, file |-> cache_file]]

\* mutant: the cache is consulted whatever force_refresh is
UseCache_always(force_refresh) == TRUE

\* `if not force_refresh:`
UseCache(force_refresh) == ~force_refresh

\* mutant: `if cached[1]:`, a listing without files counts as a miss
Truthy_files(val) == val.hit /\ val.files # <<>>

\* `if cached:` on the Optional[Tuple] that get_cached_listing returns
Truthy(val) == val.hit

\* for attempt in range(max_retries): the first request, or `raise last_error`
\* with last_error = None when the range is empty
EnterRetry(call) ==
    IF call.max_retries > 0
    THEN [call EXCEPT !.pc = "fetch", !.attempt = 0, !.fetches = @ + 1]
    ELSE [call EXCEPT !.pc = "done", !.result = Raised("TypeError")]

\* mutant: `if attempt < max_retries:`, a sleep and a further request follow
\* the last attempt too
fetch_html_with_retry_one_more(call, got) ==
    IF got.exc = None
    THEN [call EXCEPT !.pc = "done", !.result = Returned(<<>>, <<>>, got.body)]
    ELSE IF (CHOOSE e \in got.exc : TRUE) \in Retryable
    THEN LET last_error == got.exc IN
         IF call.attempt < call.max_retries
         THEN [call EXCEPT !.pc = "sleep", !.last_error = last_error,
                  !.sleeps = Append(@, Pow2(call.attempt))]
         ELSE [call EXCEPT !.pc = "done", !.last_error = last_error,
                  !.result = Raised(CHOOSE e \in last_error : TRUE)]
    ELSE [call EXCEPT !.pc = "done", !.result = Raised(CHOOSE e \in got.exc : TRUE)]

\* mutant: `except BaseException`, whatever the request raises is retried
fetch_html_with_retry_catch_all(call, got) ==
    IF got.exc = None
    THEN [call EXCEPT !.pc = "done", !.result = Returned(<<>>, <<>>, got.body)]
    ELSE LET last_error == got.exc IN
         IF call.attempt < call.max_retries - 1
         THEN [call EXCEPT !.pc = "sleep", !.last_error = last_error,
                  !.sleeps = Append(@, Pow2(call.attempt))]
         ELSE [call EXCEPT !.pc = "done", !.last_error = last_error,
                  !.result = Raised(CHOOSE e \in last_error : TRUE)]

\* mutant: linear backoff, `wait_time = attempt + 1`
fetch_html_with_retry_linear(call, got) ==
    IF got.exc = None
    THEN [call EXCEPT !.pc = "done", !.result = Returned(<<>>, <<>>, got.body)]
    ELSE IF (CHOOSE e \in got.exc : TRUE) \in Retryable
    THEN LET last_error == got.exc IN
         IF call.attempt < call.max_retries - 1
         THEN [call EXCEPT !.pc = "sleep", !.last_error = last_error,
                  !.sleeps = Append(@, call.attempt + 1)]
         ELSE [call EXCEPT !.pc = "done", !.last_error = last_error,
                  !.result = Raised(CHOOSE e \in last_error : TRUE)]
    ELSE [call EXCEPT !.pc = "done", !.result = Raised(CHOOSE e \in got.exc : TRUE)]

\* the body of the retry loop once the awaited fetch_html_async has come back
\* with got: return the body, let an exception that is not caught through, or
\* note a caught one in last_error and sleep 2 ** attempt unless this was the
\* last attempt, after which last_error is raised
fetch_html_with_retry(call, got) ==
    IF got.exc = None
    THEN [call EXCEPT !.pc = "done", !.result = Returned(<<>>, <<>>, got.body)]
    ELSE IF (CHOOSE e \in got.exc : TRUE) \in Retryable
    THEN LET last_error == got.exc IN
         IF call.attempt < call.max_retries - 1
         THEN [call EXCEPT !.pc = "sleep", !.last_error = last_error,
                  !.sleeps = Append(@, Pow2(call.attempt))]
         ELSE [call EXCEPT !.pc = "done", !.last_error = last_error,
                  !.result = Raised(CHOOSE e \in last_error : TRUE)]
    ELSE [call EXCEPT !.pc = "done", !.result = Raised(CHOOSE e \in got.exc : TRUE)]

Outcome(call, mem, file) == [call |-> call, mem |-> mem, file |-> file]

\* mutant: a failed fetch is turned into an empty body, which is parsed and
\* cached (what the synchronous wrapper fetch_html does with `return b""`)
fetch_html_cached_swallow(call, mem, file, t, io) ==
    LET parsed == parse_html(call.url, call.result.body)
        put == cache_listing(mem, file, t, call.url, parsed.folders, parsed.files, io)
    IN  IF parsed.exc # None
        THEN Outcome([call EXCEPT !.result = Raised(CHOOSE e \in parsed.exc : TRUE)],
                     mem, file)
        ELSE Outcome(IF call.result.kind = "raise" THEN call
                     ELSE [call EXCEPT !.result =
                              Returned(parsed.folders, parsed.files, call.result.body)],
                     put.mem, put.file)

\* mutant: the listing is returned but never cached
fetch_html_cached_no_put(call, mem, file, t, io) ==
    LET parsed == parse_html(call.url, call.result.body)
    IN  IF call.result.kind = "raise" THEN Outcome(call, mem, file)
        ELSE IF parsed.exc # None
        THEN Outcome([call EXCEPT !.result = Raised(CHOOSE e \in parsed.exc : TRUE)],
                     mem, file)
        ELSE Outcome([call EXCEPT !.result =
                         Returned(parsed.folders, parsed.files, call.result.body)],
                     mem, file)

\* mutant: the listing is cached in the in-process map only
fetch_html_cached_memory_only(call, mem, file, t, io) ==
    LET parsed == parse_html(call.url, call.result.body)
        put == cache_listing(mem, file, t, call.url, parsed.folders, parsed.files, io)
    IN  IF call.result.kind = "raise" THEN Outcome(call, mem, file)
        ELSE IF parsed.exc # None
        THEN Outcome([call EXCEPT !.result = Raised(CHOOSE e \in parsed.exc : TRUE)],
                     mem, file)
        ELSE Outcome([call EXCEPT !.result =
                         Returned(parsed.folders, parsed.files, call.result.body)],
                     put.mem, file)

\* fetch_html_cached after `await fetch_html_with_retry(...)` has ended in
\* call.result: parse the body and cache the listing, or let the exception
\* through
fetch_html_cached(call, mem, file, t, io) ==
    LET parsed == parse_html(call.url, call.result.body)
        put == cache_listing(mem, file, t, call.url, parsed.folders, parsed.files, io)
    IN  IF call.result.kind = "raise" THEN Outcome(call, mem, file)
        ELSE IF parsed.exc # None
        THEN Outcome([call EXCEPT !.result = Raised(CHOOSE e \in parsed.exc : TRUE)],
                     mem, file)
        ELSE Outcome([call EXCEPT !.result =
                         Returned(parsed.folders, parsed.files, call.result.body)],
                     put.mem, put.file)

\* the synchronous wrapper fetch_html once asyncio.run(_fetch()) has ended in
\* call.result: `except FTPClientError` prints the error and returns b"", the
\* empty document
fetch_html(call) ==
    IF call.result.kind = "raise" /\ call.result.exc \in FTPClientError
    THEN [call EXCEPT !.result = Returned(<<>>, <<>>, <<>>)]
    ELSE call

\* CacheManager(ttl_seconds): the given ttl and an empty _memory_cache
CacheManager(ttl) == [ttl_seconds |-> ttl, memory_cache |-> EmptyDict]

\* mutant: every call constructs a CacheManager
get_cache_manager_always_new(global_cache, ttl) == Some(CacheManager(ttl))

\* get_cache_manager(ttl_seconds): the value of _global_cache after the call,
\* which is what the call returns
get_cache_manager(global_cache, ttl) ==
    IF global_cache = None THEN Some(CacheManager(ttl)) ELSE global_cache

\* a fault is injected only where the operation does the read or write that
\* fails (hits: its outcome differs from the outcome without the fault)
TakeFault(io, hits) ==
    /\ io # "ok" => faults < MaxFaults /\ hits
    /\ faults' = IF io = "ok" THEN faults ELSE faults + 1

\* two processes that share directory_cache.json, each with the CacheManager
\* of its own
Procs == {1, 2}

\* a process whose _memory_cache is empty and that is not inside cache_listing
IdleProc == [mem |-> EmptyDict, pending |-> None]

\* the server root that main_async starts from
ServerUrl == "http://h/a/"

\* the URLs the user navigates to
NavUrls == Urls \cup {"http://h/"}

Init ==
    /\ procs = [p \in Procs |-> IdleProc]
    /\ nav = [current_url |-> ServerUrl, action |-> "none", history |-> <<>>]
    /\ ready = <<>>
    /\ bookmark_manager = [_bookmarks_cache |-> None, bookmarks_file |-> None]
    /\ now = 0
    /\ ttl_seconds \in 0..MaxTtl
    /\ memory_cache = EmptyDict
    /\ cache_file \in {FileMissing, FileCorrupt}
    /\ ret = NoRet
    /\ calls = [c \in Callers |-> IdleCall]
    /\ faults = 0

\* fetch_html_cached up to its first await
GetListing(c, url, force_refresh, io) ==
    /\ calls[c].pc = "idle"
    /\ LET call == [IdleCall EXCEPT !.kind = "cached", !.url = url,
                       !.force_refresh = force_refresh,
                       !.max_retries = DefaultMaxRetries,
                       !.pre = [mem |-> memory_cache, file |-> cache_file]]
           got == get_cached_listing(memory_cache, cache_file, now, ttl_seconds, url, io)
       IN  IF UseCache(force_refresh)
           THEN /\ TakeFault(io, got # get_cached_listing(memory_cache, cache_file, now,
                                                          ttl_seconds, url, "ok"))
                /\ memory_cache' = got.mem
                /\ cache_file' = got.file
                /\ calls' = [calls EXCEPT ![c] =
                     IF Truthy(got.val)
                     THEN [call EXCEPT !.pc = "done", !.lookups = 1,
                              !.result = Returned(got.val.folders, got.val.files, <<>>)]
                     ELSE EnterRetry([call EXCEPT !.lookups = 1])]
           ELSE /\ TakeFault(io, FALSE)
                /\ calls' = [calls EXCEPT ![c] = EnterRetry(call)]
                /\ UNCHANGED <<memory_cache, cache_file>>
    /\ ret' = NoRet
    /\ UNCHANGED <<now, ttl_seconds, procs, nav, ready, bookmark_manager>>

\* a direct call of fetch_html_with_retry, up to its first await
FetchWithRetry(c, url, max_retries) ==
    /\ calls[c].pc = "idle"
    /\ calls' = [calls EXCEPT ![c] =
                    EnterRetry([IdleCall EXCEPT !.kind = "retry", !.url = url,
                                   !.max_retries = max_retries,
                                   !.pre = [mem |-> memory_cache, file |-> cache_file]])]
    /\ ret' = NoRet
    /\ UNCHANGED <<now, ttl_seconds, memory_cache, cache_file, faults, procs, nav, ready, bookmark_manager>>

\* fetch_html, up to the first request of the fetch_html_with_retry it runs
FetchHtml(c, url) ==
    /\ calls[c].pc = "idle"
    /\ calls' = [calls EXCEPT ![c] =
                    EnterRetry([IdleCall EXCEPT !.kind = "sync", !.url = url,
                                   !.max_retries = DefaultMaxRetries,
                                   !.pre = [mem |-> memory_cache, file |-> cache_file]])]
    /\ ret' = NoRet
    /\ UNCHANGED <<now, ttl_seconds, memory_cache, cache_file, faults, procs, nav, ready, bookmark_manager>>

\* mutant: the caller yields once more between the end of the fetch and the put
Respond_yield_before_put(c, resp, io) ==
    /\ calls[c].pc = "fetch"
    /\ LET got == fetch_html_async(resp)
           after == [fetch_html_with_retry(calls[c], got) EXCEPT
                        !.last_outcome = IF got.exc = None THEN Some("ok") ELSE got.exc]
       IN  calls' = [calls EXCEPT ![c] =
                        IF after.pc = "done" /\ after.kind = "cached"
                           /\ after.result.kind = "return"
                        THEN [after EXCEPT !.pc = "put"] ELSE after]
    /\ TakeFault(io, FALSE)
    /\ UNCHANGED <<now, ttl_seconds, memory_cache, cache_file, ret, procs, nav, ready, bookmark_manager>>

\* the awaited fetch_html_async completes with resp; the caller runs on to its
\* next await or to its end
Respond(c, resp, io) ==
    /\ calls[c].pc = "fetch"
    /\ LET got == fetch_html_async(resp)
           after == [fetch_html_with_retry(calls[c], got) EXCEPT
                        !.last_outcome = IF got.exc = None THEN Some("ok") ELSE got.exc]
           end == fetch_html_cached(after, memory_cache, cache_file, now, io)
       IN  IF after.pc = "done" /\ after.kind = "cached"
           THEN /\ TakeFault(io, end # fetch_html_cached(after, memory_cache, cache_file,
                                                          now, "ok"))
                /\ calls' = [calls EXCEPT ![c] = end.call]
                /\ memory_cache' = end.mem
                /\ cache_file' = end.file
           ELSE /\ TakeFault(io, FALSE)
                /\ calls' = [calls EXCEPT ![c] =
                     IF after.pc = "done" /\ after.kind = "sync"
                     THEN fetch_html(after) ELSE after]
                /\ UNCHANGED <<memory_cache, cache_file>>
    /\ UNCHANGED <<now, ttl_seconds, ret, procs, nav, ready, bookmark_manager>>

\* action_refresh of the TUI: the url is invalidated and a load_directory task
\* is created for it; asyncio.create_task puts its first step at the end of
\* the event loop's queue of ready callbacks
ActionRefresh(c, url) ==
    /\ calls[c].pc = "idle"
    /\ LET got == invalidate_cache(memory_cache, cache_file, url, "ok")
       IN  /\ memory_cache' = got.mem
           /\ cache_file' = got.file
           /\ calls' = [calls EXCEPT ![c] =
                           [IdleCall EXCEPT !.pc = "spawned", !.kind = "cached",
                               !.url = url,
                               !.pre = [mem |-> got.mem, file |-> got.file]]]
    /\ ret' = Ret("invalidate", url, None)
    /\ ready' = Append(ready, c)
    /\ UNCHANGED <<now, ttl_seconds, faults, procs, nav, bookmark_manager>>

\* the request or the sleep that task c awaits is over: the step that resumes
\* the task is put at the end of the queue
Arrive(c) ==
    /\ calls[c].pc \in {"fetch", "sleep"}
    /\ \A i \in 1..Len(ready) : ready[i] # c
    /\ ready' = Append(ready, c)
    /\ UNCHANGED <<now, ttl_seconds, memory_cache, cache_file, ret, calls, faults,
                   procs, nav, bookmark_manager>>

\* the event loop runs the first step of its queue, a task that was created:
\* load_directory up to the first await of its
\* fetch_html_cached(self.http_session, self.current_url, auth)
LoadDirectory(c) ==
    /\ ready # <<>> /\ Head(ready) = c
    /\ calls[c].pc = "spawned"
    /\ LET call == [calls[c] EXCEPT !.max_retries = DefaultMaxRetries]
           got == get_cached_listing(memory_cache, cache_file, now, ttl_seconds,
                                     call.url, "ok")
       IN  /\ memory_cache' = got.mem
           /\ cache_file' = got.file
           /\ calls' = [calls EXCEPT ![c] =
                 IF Truthy(got.val)
                 THEN [call EXCEPT !.pc = "done", !.lookups = 1,
                          !.result = Returned(got.val.folders, got.val.files, <<>>)]
                 ELSE EnterRetry([call EXCEPT !.lookups = 1])]
    /\ ret' = NoRet
    /\ ready' = Tail(ready)
    /\ UNCHANGED <<now, ttl_seconds, faults, procs, nav, bookmark_manager>>

\* the event loop runs the first step of its queue, a task whose request came
\* back with resp: the task runs on to its next await or to its end
Resume(c, resp) ==
    /\ ready # <<>> /\ Head(ready) = c
    /\ calls[c].pc = "fetch"
    /\ LET got == fetch_html_async(resp)
           after == [fetch_html_with_retry(calls[c], got) EXCEPT
                        !.last_outcome = IF got.exc = None THEN Some("ok") ELSE got.exc]
           end == fetch_html_cached(after, memory_cache, cache_file, now, "ok")
       IN  IF after.pc = "done"
           THEN /\ calls' = [calls EXCEPT ![c] = end.call]
                /\ memory_cache' = end.mem
                /\ cache_file' = end.file
           ELSE /\ calls' = [calls EXCEPT ![c] = after]
                /\ UNCHANGED <<memory_cache, cache_file>>
    /\ ready' = Tail(ready)
    /\ UNCHANGED <<now, ttl_seconds, ret, faults, procs, nav, bookmark_manager>>

\* the event loop runs the first step of its queue, a task whose sleep is
\* over: the next iteration issues its request
ResumeSleep(c) ==
    /\ ready # <<>> /\ Head(ready) = c
    /\ calls[c].pc = "sleep"
    /\ calls' = [calls EXCEPT ![c] =
                    [@ EXCEPT !.pc = "fetch", !.attempt = @ + 1, !.fetches = @ + 1]]
    /\ ready' = Tail(ready)
    /\ UNCHANGED <<now, ttl_seconds, memory_cache, cache_file, ret, faults, procs, nav, bookmark_manager>>

\* the task of caller c is cancelled: asyncio.CancelledError is raised at the
\* await the caller is suspended in. In a request it passes the except clauses
\* of fetch_html_async and meets those of the retry loop; in a sleep it is
\* raised inside the except block and leaves the loop. fetch_html_cached then
\* sees the exception of its awaited fetch_html_with_retry
Cancel(c) ==
    /\ calls[c].pc \in {"fetch", "sleep"}
    /\ LET got == Fetched(Some("CancelledError"), <<>>)
           after == IF calls[c].pc = "fetch"
                    THEN [fetch_html_with_retry(calls[c], got) EXCEPT !.last_outcome = got.exc]
                    ELSE [calls[c] EXCEPT !.pc = "done", !.last_outcome = got.exc,
                             !.result = Raised("CancelledError")]
           end == fetch_html_cached(after, memory_cache, cache_file, now, "ok")
       IN  IF after.pc = "done" /\ after.kind = "cached"
           THEN /\ calls' = [calls EXCEPT ![c] = end.call]
                /\ memory_cache' = end.mem
                /\ cache_file' = end.file
           ELSE /\ calls' = [calls EXCEPT ![c] = after]
                /\ UNCHANGED <<memory_cache, cache_file>>
    /\ UNCHANGED <<now, ttl_seconds, ret, faults, procs, nav, ready, bookmark_manager>>

\* asyncio.sleep(wait_time) is over: the next iteration issues its request
Wake(c) ==
    /\ calls[c].pc = "sleep"
    /\ calls' = [calls EXCEPT ![c] =
                    [@ EXCEPT !.pc = "fetch", !.attempt = @ + 1, !.fetches = @ + 1]]
    /\ UNCHANGED <<now, ttl_seconds, memory_cache, cache_file, ret, faults, procs, nav, ready, bookmark_manager>>

\* the caller has taken the result; it may call again
Return(c) ==
    /\ calls[c].pc = "done"
    /\ calls' = [calls EXCEPT ![c] = IdleCall]
    /\ UNCHANGED <<now, ttl_seconds, memory_cache, cache_file, ret, faults, procs, nav, ready, bookmark_manager>>

(* ---------------------------- store operations ------------------------ *)

Listing(folders, files) == [folders |-> folders, files |-> files]

\* what cache_listing is handed when it is called directly: an empty listing,
\* and a listing with a file of known size
PutInputs ==
    {Listing(<<>>, <<>>),
     Listing(<<Folder("..", "http://h/")>>,
             <<File("f.mkv", "http://h/a/f.mkv", Some(7))>>)}

Lookup(url, io) ==
    /\ LET got == get_cached_listing(memory_cache, cache_file, now, ttl_seconds, url, io)
       IN  /\ TakeFault(io, got # get_cached_listing(memory_cache, cache_file, now, ttl_seconds, url, "ok"))
           /\ memory_cache' = got.mem
           /\ cache_file' = got.file
           /\ ret' = Ret("lookup", url, got.val)
    /\ UNCHANGED <<now, ttl_seconds, calls, procs, nav, ready, bookmark_manager>>

Put(url, listing, io) ==
    /\ LET got == cache_listing(memory_cache, cache_file, now, url,
                                listing.folders, listing.files, io)
       IN  /\ TakeFault(io, got # cache_listing(memory_cache, cache_file, now, url,
                               listing.folders, listing.files, "ok"))
           /\ memory_cache' = got.mem
           /\ cache_file' = got.file
           /\ ret' = Ret("put", url, listing)
    /\ UNCHANGED <<now, ttl_seconds, calls, procs, nav, ready, bookmark_manager>>

Invalidate(url, io) ==
    /\ LET got == invalidate_cache(memory_cache, cache_file, url, io)
       IN  /\ TakeFault(io, got # invalidate_cache(memory_cache, cache_file, url, "ok"))
           /\ memory_cache' = got.mem
           /\ cache_file' = got.file
           /\ ret' = Ret("invalidate", url, None)
    /\ UNCHANGED <<now, ttl_seconds, calls, procs, nav, ready, bookmark_manager>>

ClearAll(io) ==
    /\ LET got == clear_all_cache(memory_cache, cache_file, io)
       IN  /\ TakeFault(io, got # clear_all_cache(memory_cache, cache_file, "ok"))
           /\ memory_cache' = got.mem
           /\ cache_file' = got.file
           /\ ret' = Ret("clear", "", None)
    /\ UNCHANGED <<now, ttl_seconds, calls, procs, nav, ready, bookmark_manager>>

Stats(io) ==
    /\ LET got == get_cache_stats(memory_cache, cache_file, now, ttl_seconds, io)
       IN  /\ TakeFault(io, got # get_cache_stats(memory_cache, cache_file, now, ttl_seconds, "ok"))
           /\ memory_cache' = got.mem
           /\ cache_file' = got.file
           /\ ret' = Ret("stats", "", got.val)
    /\ UNCHANGED <<now, ttl_seconds, calls, procs, nav, ready, bookmark_manager>>

PurgeExpired(io) ==
    /\ LET got == cleanup_expired(memory_cache, cache_file, now, ttl_seconds, io)
       IN  /\ TakeFault(io, got # cleanup_expired(memory_cache, cache_file, now, ttl_seconds, "ok"))
           /\ memory_cache' = got.mem
           /\ cache_file' = got.file
           /\ ret' = Ret("purge", "", got.val)
    /\ UNCHANGED <<now, ttl_seconds, calls, procs, nav, ready, bookmark_manager>>

\* time.time() advances
Tick ==
    /\ now < MaxTime
    /\ now' = now + 1
    /\ ret' = NoRet
    /\ UNCHANGED <<ttl_seconds, memory_cache, cache_file, calls, faults, procs, nav, ready, bookmark_manager>>

\* the process ends and a new one starts: only the cache file survives
Restart ==
    /\ memory_cache' = EmptyDict
    /\ calls' = [c \in Callers |-> IdleCall]
    /\ ret' = NoRet
    /\ UNCHANGED <<now, ttl_seconds, cache_file, faults, procs, nav, ready, bookmark_manager>>

\* a process starts and calls get_cache_manager(ttl) for the first time, with
\* _global_cache = None: only the cache file is there from before
StartProcess(ttl) ==
    /\ LET got == CHOOSE g \in get_cache_manager(None, ttl) : TRUE
       IN  /\ ttl_seconds' = got.ttl_seconds
           /\ memory_cache' = got.memory_cache
    /\ calls' = [c \in Callers |-> IdleCall]
    /\ ret' = [Ret("start", "", [arg |-> ttl, instance |-> CacheManager(ttl)])
                  EXCEPT !.pre = [mem |-> EmptyDict, file |-> cache_file]]
    /\ UNCHANGED <<now, cache_file, faults, procs, nav, ready, bookmark_manager>>

\* a later call get_cache_manager(ttl) of the running process
GetCacheManager(ttl) ==
    /\ LET got == CHOOSE g \in get_cache_manager(
                       Some([ttl_seconds |-> ttl_seconds, memory_cache |-> memory_cache]),
                       ttl) : TRUE
       IN  /\ ttl_seconds' = got.ttl_seconds
           /\ memory_cache' = got.memory_cache
           /\ ret' = Ret("get_cache_manager", "", [arg |-> ttl, instance |-> got])
    /\ UNCHANGED <<now, cache_file, calls, faults, procs, nav, ready, bookmark_manager>>

\* no call of fetch_html_cached is outstanding
Quiet == \A c \in Callers : calls[c].pc = "idle"

\* one flow of control: the navigation loop of main_async (a listing request,
\* a refresh) and the cache-clear command, on storage that works
Next ==
    \/ \E url \in Urls, force_refresh \in BOOLEAN : GetListing(1, url, force_refresh, "ok")
    \/ \E resp \in Responses : Respond(1, resp, "ok")
    \/ Wake(1)
    \/ Return(1)
    \/ Quiet /\ \E url \in Urls : Invalidate(url, "ok")
    \/ Quiet /\ ClearAll("ok")
    \/ Tick
    \/ Quiet /\ Restart

Spec == Init /\ [][Next]_vars

\* the CacheManager on its own, every operation called directly, on storage
\* that works
NextStore ==
    \/ \E url \in Urls : Lookup(url, "ok")
    \/ \E url \in Urls, listing \in PutInputs : Put(url, listing, "ok")
    \/ \E url \in Urls : Invalidate(url, "ok")
    \/ ClearAll("ok")
    \/ Stats("ok")
    \/ PurgeExpired("ok")
    \/ Tick
    \/ Restart

SpecStore == Init /\ [][NextStore]_vars

\* the operations that change or read the entries, on storage that meets up to
\* MaxFaults faults
NextFaulty ==
    \/ \E url \in Urls, io \in IOChoices : Lookup(url, io)
    \/ \E url \in Urls, listing \in PutInputs, io \in IOChoices : Put(url, listing, io)
    \/ \E url \in Urls, io \in IOChoices : Invalidate(url, io)
    \/ \E io \in IOChoices : ClearAll(io)
    \/ \E io \in IOChoices : PurgeExpired(io)
    \/ Tick
    \/ Restart

SpecFaulty == Init /\ [][NextFaulty]_vars

\* what a request comes back with while two callers race
RaceResponses ==
    {Http(200, DocEmpty), Http(200, DocListing), Transport("timeout")}

\* two load_directory tasks of the TUI on one url, and its refresh action: the
\* event loop runs one of them at a time, from one await to the next
NextRace ==
    \/ \E c \in Callers : GetListing(c, "http://h/a/", FALSE, "ok")
    \/ \E c \in Callers, resp \in RaceResponses : Respond(c, resp, "ok")
    \/ \E c \in Callers : Wake(c)
    \/ \E c \in Callers : Return(c)
    \/ Invalidate("http://h/a/", "ok")
    \/ Tick

SpecRace == Init /\ [][NextRace]_vars

\* cache_listing in process p, up to the return of _load_cache_from_disk: the
\* entry is in the process's _memory_cache and the whole document has been read
PutLoad(p, url, listing) ==
    /\ procs[p].pending = None
    /\ LET url_hash == _url_to_hash(url)
           entry == NewEntry(url, now, listing.folders, listing.files)
       IN  procs' = [procs EXCEPT ![p] =
                        [mem |-> DictSet(@.mem, url_hash, entry),
                         pending |-> Some([url_hash |-> url_hash, entry |-> entry,
                                           opened |-> FALSE,
                                           cache_data |-> _load_cache_from_disk(cache_file, "ok")])]]
    /\ UNCHANGED <<now, ttl_seconds, memory_cache, cache_file, ret, calls, faults, nav, ready, bookmark_manager>>

\* cache_listing in process p, from `cache_data[url_hash] = entry` to the
\* open(self.cache_file, 'w') of _save_cache_to_disk: the file is emptied, and
\* a reader finds no JSON in it until the document is written
PutOpen(p) ==
    /\ procs[p].pending # None
    /\ LET w == CHOOSE x \in procs[p].pending : TRUE
       IN  /\ ~w.opened
           /\ procs' = [procs EXCEPT ![p].pending = Some([w EXCEPT !.opened = TRUE])]
    /\ cache_file' = FileCorrupt
    /\ UNCHANGED <<now, ttl_seconds, memory_cache, ret, calls, faults, nav, ready, bookmark_manager>>

\* cache_listing in process p, from the json.dump of _save_cache_to_disk to its
\* end: the document read earlier, with the entry set, is written from the
\* start of the file. When the other process has written the file since this
\* one opened it, what it wrote is overwritten and not cut off: the file
\* holds this document (intact), or this document followed by the rest of a
\* longer one, which is not JSON
PutSave(p, intact) ==
    /\ procs[p].pending # None
    /\ LET w == CHOOSE x \in procs[p].pending : TRUE
       IN  /\ w.opened
           /\ ~intact => cache_file.state = "json"
           /\ cache_file' = IF intact
                            THEN _save_cache_to_disk(cache_file,
                                     DictSet(w.cache_data, w.url_hash, w.entry), "ok")
                            ELSE FileCorrupt
    /\ procs' = [procs EXCEPT ![p].pending = None]
    /\ UNCHANGED <<now, ttl_seconds, memory_cache, ret, calls, faults, nav, ready, bookmark_manager>>

\* two processes on one cache file: the operating system runs the other
\* process between any two file operations of cache_listing
NextShared ==
    \/ \E p \in Procs, url \in Urls : PutLoad(p, url, Listing(<<>>, <<>>))
    \/ \E p \in Procs : PutOpen(p)
    \/ \E p \in Procs, intact \in BOOLEAN : PutSave(p, intact)
    \/ Tick

SpecShared == Init /\ [][NextShared]_vars
(* ---------------------------- bookmarks ------------------------------- *)

\* the names a user gives to bookmarks
BookmarkNames == {"a", "A", "b"}

\* str.lower() on the names above
lower(name) == IF name = "A" THEN "a" ELSE name

Bookmark(name, server, url, timestamp) ==
    [name |-> name, server |-> server, url |-> url, timestamp |-> timestamp]

\* the server name the bookmarks are made on
ServerName == "h"

\* BookmarkManager(): nothing loaded yet; the bookmarks file may exist already
BookmarkManager(bookmarks_file) ==
    [_bookmarks_cache |-> None, bookmarks_file |-> bookmarks_file]

\* the manager after _load_bookmarks(); the cached list is the value returned
_load_bookmarks(self) ==
    IF self._bookmarks_cache # None THEN self
    ELSE IF self.bookmarks_file = None
         THEN [self EXCEPT !._bookmarks_cache = Some(<<>>)]
         ELSE [self EXCEPT !._bookmarks_cache = self.bookmarks_file]

\* the list that _load_bookmarks() returns
Loaded(self) == CHOOSE bookmarks \in _load_bookmarks(self)._bookmarks_cache : TRUE

\* _save_bookmarks(bookmarks): the file and the cache are replaced, or neither
\* is when open() raises IOError
_save_bookmarks(self, bookmarks, io_ok) ==
    IF io_ok
    THEN [_bookmarks_cache |-> Some(bookmarks), bookmarks_file |-> Some(bookmarks)]
    ELSE self

\* some bookmark of the list has this name, ignoring case
NameIn(bookmarks, name) ==
    \E i \in 1..Len(bookmarks) : lower(bookmarks[i].name) = lower(name)

\* add_bookmark(name, server, url); the append is made on the cached list
\* itself, before the save
add_bookmark(self, name, server, url, t, io_ok) ==
    LET loaded == _load_bookmarks(self)
        bookmarks == Loaded(self)
    IN  IF NameIn(bookmarks, name)
        THEN [self |-> loaded, val |-> FALSE]
        ELSE LET appended == Append(bookmarks, Bookmark(name, server, url, t))
             IN  [self |-> _save_bookmarks(
                               [loaded EXCEPT !._bookmarks_cache = Some(appended)],
                               appended, io_ok),
                  val |-> TRUE]

\* remove_bookmark(name): a new list without the name is saved
remove_bookmark(self, name, io_ok) ==
    LET loaded == _load_bookmarks(self)
        bookmarks == Loaded(self)
        kept == SelectSeq(bookmarks, LAMBDA b : lower(b.name) # lower(name))
    IN  IF Len(kept) < Len(bookmarks)
        THEN [self |-> _save_bookmarks(loaded, kept, io_ok), val |-> TRUE]
        ELSE [self |-> loaded, val |-> FALSE]

\* update_bookmark(name, new_name, new_url): the first bookmark with the name
\* is changed in place, then the list is saved
update_bookmark(self, name, new_name, new_url, t, io_ok) ==
    LET loaded == _load_bookmarks(self)
        bookmarks == Loaded(self)
    IN  IF ~NameIn(bookmarks, name)
        THEN [self |-> loaded, val |-> FALSE]
        ELSE LET i == CHOOSE k \in 1..Len(bookmarks) :
                          /\ lower(bookmarks[k].name) = lower(name)
                          /\ \A j \in 1..(k - 1) : lower(bookmarks[j].name) # lower(name)
                 renames == new_name # None /\ new_name # Some("")
                 wanted == CHOOSE n \in new_name : TRUE
             IN  IF /\ renames
                    /\ \E j \in 1..Len(bookmarks) :
                           /\ lower(bookmarks[j].name) = lower(wanted)
                           /\ bookmarks[j].name # bookmarks[i].name
                 THEN [self |-> loaded, val |-> FALSE]
                 ELSE LET updated ==
                              [bookmarks EXCEPT ![i] =
                                  Bookmark(IF renames THEN wanted ELSE bookmarks[i].name,
                                           bookmarks[i].server,
                                           IF new_url # None /\ new_url # Some("")
                                           THEN CHOOSE u \in new_url : TRUE
                                           ELSE bookmarks[i].url,
                                           t)]
                      IN  [self |-> _save_bookmarks(
                                        [loaded EXCEPT !._bookmarks_cache = Some(updated)],
                                        updated, io_ok),
                           val |-> TRUE]

\* clear_all_bookmarks(): the empty list is saved when there was a bookmark
clear_all_bookmarks(self, io_ok) ==
    LET loaded == _load_bookmarks(self)
        bookmarks == Loaded(self)
    IN  [self |-> IF Len(bookmarks) > 0 THEN _save_bookmarks(loaded, <<>>, io_ok)
                  ELSE loaded,
         val |-> Len(bookmarks)]

\* import_bookmarks(file_path, merge): data is the list read from the file, or
\* None when the file cannot be read
import_bookmarks(self, data, merge, io_ok) ==
    IF data = None THEN [self |-> self, val |-> 0]
    ELSE LET imported == CHOOSE d \in data : TRUE
         IN  IF merge
             THEN LET loaded == _load_bookmarks(self)
                      existing == Loaded(self)
                      new_bookmarks ==
                          SelectSeq(imported, LAMBDA b : ~NameIn(existing, b.name))
                  IN  [self |-> _save_bookmarks(loaded, existing \o new_bookmarks, io_ok),
                       val |-> Len(new_bookmarks)]
             ELSE [self |-> _save_bookmarks(self, imported, io_ok),
                   val |-> Len(imported)]

\* the bookmarks of Matches (indices of the list) that no other one precedes:
\* where a `for bookmark in bookmarks` loop returns
First(Matches) == {i \in Matches : \A j \in Matches : i <= j}

\* get_bookmark(name): the first bookmark with the name, ignoring case
get_bookmark(self, name) ==
    LET bookmarks == Loaded(self)
        found == First({i \in 1..Len(bookmarks) : lower(bookmarks[i].name) = lower(name)})
    IN  [self |-> _load_bookmarks(self), val |-> {bookmarks[i] : i \in found}]

\* sorted(bookmarks, key=lambda b: b.timestamp, reverse=True): the most recent
\* first, bookmarks of one timestamp in the order of the list
RECURSIVE SortedByTimestamp(_)
SortedByTimestamp(bookmarks) ==
    IF bookmarks = <<>> THEN <<>>
    ELSE LET last == bookmarks[Len(bookmarks)]
             rest == SortedByTimestamp(SubSeq(bookmarks, 1, Len(bookmarks) - 1))
             before == SelectSeq(rest, LAMBDA b : b.timestamp >= last.timestamp)
             after == SelectSeq(rest, LAMBDA b : b.timestamp < last.timestamp)
         IN  before \o <<last>> \o after

\* list_bookmarks(): a sorted copy; the stored list keeps its order
list_bookmarks(self) ==
    [self |-> _load_bookmarks(self), val |-> SortedByTimestamp(Loaded(self))]

\* is_bookmarked(url): the name of the first bookmark of the url
is_bookmarked(self, url) ==
    LET bookmarks == Loaded(self)
        found == First({i \in 1..Len(bookmarks) : bookmarks[i].url = url})
    IN  [self |-> _load_bookmarks(self), val |-> {bookmarks[i].name : i \in found}]

\* get_bookmarks_by_server(server)
get_bookmarks_by_server(self, server) ==
    [self |-> _load_bookmarks(self),
     val |-> SelectSeq(Loaded(self), LAMBDA b : b.server = server)]

\* export_bookmarks(file_path): the list is written to another file; False
\* when open() raises IOError
export_bookmarks(self, io_ok) ==
    [self |-> _load_bookmarks(self), val |-> io_ok]

\* the files given to import_bookmarks: an unreadable file, an empty list, one
\* bookmark, two bookmarks with different names, two with names that differ
\* in case only
ImportFiles ==
    {None, Some(<<>>),
     Some(<<Bookmark("b", ServerName, ServerUrl, 0)>>),
     Some(<<Bookmark("a", ServerName, ServerUrl, 0), Bookmark("b", ServerName, ServerUrl, 1)>>),
     Some(<<Bookmark("a", ServerName, ServerUrl, 0), Bookmark("A", ServerName, ServerUrl, 1)>>)}

\* the result of a call on the bookmark manager, with the manager before it
BookmarkRet(op, name, val) ==
    [op |-> op, url |-> "", val |-> [name |-> name, result |-> val],
     pre |-> bookmark_manager]

AddBookmark(name, url, io_ok) ==
    /\ ~io_ok => faults < MaxFaults
    /\ faults' = IF io_ok THEN faults ELSE faults + 1
    /\ LET got == add_bookmark(bookmark_manager, name, ServerName, url, now, io_ok)
       IN  /\ bookmark_manager' = got.self
           /\ ret' = BookmarkRet("add_bookmark", name, got.val)
    /\ UNCHANGED <<now, ttl_seconds, memory_cache, cache_file, calls, procs, nav, ready>>

RemoveBookmark(name, io_ok) ==
    /\ ~io_ok => faults < MaxFaults
    /\ faults' = IF io_ok THEN faults ELSE faults + 1
    /\ LET got == remove_bookmark(bookmark_manager, name, io_ok)
       IN  /\ bookmark_manager' = got.self
           /\ ret' = BookmarkRet("remove_bookmark", name, got.val)
    /\ UNCHANGED <<now, ttl_seconds, memory_cache, cache_file, calls, procs, nav, ready>>

UpdateBookmark(name, new_name, new_url, io_ok) ==
    /\ ~io_ok => faults < MaxFaults
    /\ faults' = IF io_ok THEN faults ELSE faults + 1
    /\ LET got == update_bookmark(bookmark_manager, name, new_name, new_url, now, io_ok)
       IN  /\ bookmark_manager' = got.self
           /\ ret' = BookmarkRet("update_bookmark", name, got.val)
    /\ UNCHANGED <<now, ttl_seconds, memory_cache, cache_file, calls, procs, nav, ready>>

ClearAllBookmarks(io_ok) ==
    /\ ~io_ok => faults < MaxFaults
    /\ faults' = IF io_ok THEN faults ELSE faults + 1
    /\ LET got == clear_all_bookmarks(bookmark_manager, io_ok)
       IN  /\ bookmark_manager' = got.self
           /\ ret' = BookmarkRet("clear_all_bookmarks", "", got.val)
    /\ UNCHANGED <<now, ttl_seconds, memory_cache, cache_file, calls, procs, nav, ready>>

ImportBookmarks(data, merge, io_ok) ==
    /\ ~io_ok => faults < MaxFaults
    /\ faults' = IF io_ok THEN faults ELSE faults + 1
    /\ LET got == import_bookmarks(bookmark_manager, data, merge, io_ok)
       IN  /\ bookmark_manager' = got.self
           /\ ret' = BookmarkRet("import_bookmarks", "", got.val)
    /\ UNCHANGED <<now, ttl_seconds, memory_cache, cache_file, calls, procs, nav, ready>>

GetBookmark(name) ==
    /\ LET got == get_bookmark(bookmark_manager, name)
       IN  /\ bookmark_manager' = got.self
           /\ ret' = BookmarkRet("get_bookmark", name, got.val)
    /\ UNCHANGED <<now, ttl_seconds, memory_cache, cache_file, calls, faults, procs, nav, ready>>

ListBookmarks ==
    /\ LET got == list_bookmarks(bookmark_manager)
       IN  /\ bookmark_manager' = got.self
           /\ ret' = BookmarkRet("list_bookmarks", "", got.val)
    /\ UNCHANGED <<now, ttl_seconds, memory_cache, cache_file, calls, faults, procs, nav, ready>>

IsBookmarked(url) ==
    /\ LET got == is_bookmarked(bookmark_manager, url)
       IN  /\ bookmark_manager' = got.self
           /\ ret' = BookmarkRet("is_bookmarked", url, got.val)
    /\ UNCHANGED <<now, ttl_seconds, memory_cache, cache_file, calls, faults, procs, nav, ready>>

GetBookmarksByServer(server) ==
    /\ LET got == get_bookmarks_by_server(bookmark_manager, server)
       IN  /\ bookmark_manager' = got.self
           /\ ret' = BookmarkRet("get_bookmarks_by_server", server, got.val)
    /\ UNCHANGED <<now, ttl_seconds, memory_cache, cache_file, calls, faults, procs, nav, ready>>

ExportBookmarks(io_ok) ==
    /\ ~io_ok => faults < MaxFaults
    /\ faults' = IF io_ok THEN faults ELSE faults + 1
    /\ LET got == export_bookmarks(bookmark_manager, io_ok)
       IN  /\ bookmark_manager' = got.self
           /\ ret' = BookmarkRet("export_bookmarks", "", got.val)
    /\ UNCHANGED <<now, ttl_seconds, memory_cache, cache_file, calls, procs, nav, ready>>

\* the program is started again: a new manager over the file left behind
RestartBookmarks ==
    /\ bookmark_manager' = BookmarkManager(bookmark_manager.bookmarks_file)
    /\ ret' = BookmarkRet("start", "", 0)
    /\ UNCHANGED <<now, ttl_seconds, memory_cache, cache_file, calls, faults, procs, nav, ready>>

\* the new names and urls given to update_bookmark
NewNames == {None, Some("")} \cup {Some(n) : n \in BookmarkNames}
NewUrls == {None, Some("http://h/")}

NextBookmarks ==
    \/ \E name \in BookmarkNames, io_ok \in BOOLEAN : AddBookmark(name, ServerUrl, io_ok)
    \/ \E name \in BookmarkNames, io_ok \in BOOLEAN : RemoveBookmark(name, io_ok)
    \/ \E name \in BookmarkNames, new_name \in NewNames, new_url \in NewUrls,
          io_ok \in BOOLEAN :
           UpdateBookmark(name, new_name, new_url, io_ok)
    \/ \E io_ok \in BOOLEAN : ClearAllBookmarks(io_ok)
    \/ \E data \in ImportFiles, merge \in BOOLEAN, io_ok \in BOOLEAN :
           ImportBookmarks(data, merge, io_ok)
    \/ \E name \in BookmarkNames : GetBookmark(name)
    \/ ListBookmarks
    \/ \E url \in {ServerUrl, "http://h/"} : IsBookmarked(url)
    \/ \E server \in {ServerName, "other"} : GetBookmarksByServer(server)
    \/ \E io_ok \in BOOLEAN : ExportBookmarks(io_ok)
    \/ RestartBookmarks

SpecBookmarks == Init /\ [][NextBookmarks]_vars

(* ---------------------------- navigation ------------------------------ *)

\* `folders, files = await fetch_html_cached(http_session, current_url, auth)`,
\* up to its first await
NavFetch == GetListing(1, nav.current_url, FALSE, "ok")

\* the names typed at the prompt of command 'a'
NavBookmarkNames == {"a", "A"}

\* the bookmark manager when browse_directory prompts for a command:
\* display_directory_listing has called is_bookmarked(current_url)
Displayed == is_bookmarked(bookmark_manager, nav.current_url).self

\* the call raised: the error is printed, input() returns and the loop runs
\* again on the same current_url
NavRetry ==
    /\ calls[1].pc = "done"
    /\ calls[1].result.kind = "raise"
    /\ calls' = [calls EXCEPT ![1] = IdleCall]
    /\ UNCHANGED <<now, ttl_seconds, memory_cache, cache_file, ret, faults, procs, nav, ready, bookmark_manager>>

\* mutant: refresh runs the loop again without invalidating
NavRefresh_no_invalidate ==
    /\ calls[1].pc = "done"
    /\ calls[1].result.kind = "return"
    /\ ret' = Ret("invalidate", nav.current_url, None)
    /\ nav' = [nav EXCEPT !.action = "refresh"]
    /\ calls' = [calls EXCEPT ![1] = IdleCall]
    /\ bookmark_manager' = Displayed
    /\ UNCHANGED <<now, ttl_seconds, memory_cache, cache_file, faults, procs, ready>>

\* browse_directory returned "refresh" (command 'r', help, play all, change
\* of player, a cancelled or empty choice, an invalid command):
\* invalidate_cache(current_url); continue
NavRefresh ==
    /\ calls[1].pc = "done"
    /\ calls[1].result.kind = "return"
    /\ LET got == invalidate_cache(memory_cache, cache_file, nav.current_url, "ok")
       IN  /\ memory_cache' = got.mem
           /\ cache_file' = got.file
           /\ ret' = Ret("invalidate", nav.current_url, None)
    /\ nav' = [nav EXCEPT !.action = "refresh"]
    /\ calls' = [calls EXCEPT ![1] = IdleCall]
    /\ bookmark_manager' = Displayed
    /\ UNCHANGED <<now, ttl_seconds, faults, procs, ready>>

\* mutant: the url of the selected folder is appended to the history
NavSelect_push_new(selected_index) ==
    /\ calls[1].pc = "done"
    /\ calls[1].result.kind = "return"
    /\ LET items == calls[1].result.folders \o calls[1].result.files
       IN  /\ selected_index \in 1..Len(items)
           /\ IF selected_index <= Len(calls[1].result.folders)
              THEN /\ items[selected_index].url \in NavUrls
                   /\ Len(nav.history) < MaxHistory
                   /\ nav' = [current_url |-> items[selected_index].url,
                              action |-> "select",
                              history |-> Append(nav.history, items[selected_index].url)]
              ELSE nav' = [nav EXCEPT !.action = "select"]
    /\ calls' = [calls EXCEPT ![1] = IdleCall]
    /\ bookmark_manager' = Displayed
    /\ UNCHANGED <<now, ttl_seconds, memory_cache, cache_file, ret, faults, procs, ready>>

\* browse_directory returned "select" and an index into folders + files: a
\* folder becomes current_url after the url left behind has been appended to
\* session.history, a file is played
NavSelect(selected_index) ==
    /\ calls[1].pc = "done"
    /\ calls[1].result.kind = "return"
    /\ LET items == calls[1].result.folders \o calls[1].result.files
       IN  /\ selected_index \in 1..Len(items)
           /\ IF selected_index <= Len(calls[1].result.folders)
              THEN /\ items[selected_index].url \in NavUrls
                   /\ Len(nav.history) < MaxHistory
                   /\ nav' = [current_url |-> items[selected_index].url,
                              action |-> "select",
                              history |-> Append(nav.history, nav.current_url)]
              ELSE nav' = [nav EXCEPT !.action = "select"]
    /\ calls' = [calls EXCEPT ![1] = IdleCall]
    /\ bookmark_manager' = Displayed
    /\ UNCHANGED <<now, ttl_seconds, memory_cache, cache_file, ret, faults, procs, ready>>

\* command 'b' and the number of a bookmark: browse_directory returned
\* "bookmark" with the url of that bookmark of list_bookmarks(), which becomes
\* current_url and is appended to session.history
NavBookmark(choice) ==
    /\ calls[1].pc = "done"
    /\ calls[1].result.kind = "return"
    /\ Len(nav.history) < MaxHistory
    /\ LET got == list_bookmarks(Displayed)
       IN  /\ choice \in 1..Len(got.val)
           /\ nav' = [current_url |-> got.val[choice].url, action |-> "bookmark",
                      history |-> Append(nav.history, got.val[choice].url)]
           /\ bookmark_manager' = got.self
    /\ calls' = [calls EXCEPT ![1] = IdleCall]
    /\ UNCHANGED <<now, ttl_seconds, memory_cache, cache_file, ret, faults, procs, ready>>

\* command 'a' and a name: add_bookmark(name, server_name, current_url), then
\* browse_directory returned "refresh": invalidate_cache(current_url); continue
NavAddBookmark(name) ==
    /\ calls[1].pc = "done"
    /\ calls[1].result.kind = "return"
    /\ bookmark_manager' =
           add_bookmark(Displayed, name, ServerName, nav.current_url, now, TRUE).self
    /\ LET got == invalidate_cache(memory_cache, cache_file, nav.current_url, "ok")
       IN  /\ memory_cache' = got.mem
           /\ cache_file' = got.file
           /\ ret' = Ret("invalidate", nav.current_url, None)
    /\ nav' = [nav EXCEPT !.action = "refresh"]
    /\ calls' = [calls EXCEPT ![1] = IdleCall]
    /\ UNCHANGED <<now, ttl_seconds, faults, procs, ready>>

\* the actions of browse_directory that download or play files
FileActions == {"download", "batch_download", "batch_play"}

\* browse_directory returned "download", "batch_download" or "batch_play": the
\* files are downloaded or played and the loop runs again
NavDownload(action) ==
    /\ calls[1].pc = "done"
    /\ calls[1].result.kind = "return"
    /\ nav' = [nav EXCEPT !.action = action]
    /\ calls' = [calls EXCEPT ![1] = IdleCall]
    /\ bookmark_manager' = Displayed
    /\ UNCHANGED <<now, ttl_seconds, memory_cache, cache_file, ret, faults, procs, ready>>

\* the navigation loop of main_async, on storage that works
NextNav ==
    \/ NavFetch
    \/ \E resp \in RaceResponses : Respond(1, resp, "ok")
    \/ Wake(1)
    \/ NavRetry
    \/ NavRefresh
    \/ \E selected_index \in 1..(Len(calls[1].result.folders) + Len(calls[1].result.files)) :
          NavSelect(selected_index)
    \/ \E name \in NavBookmarkNames : NavAddBookmark(name)
    \/ \E choice \in 1..Len(list_bookmarks(Displayed).val) : NavBookmark(choice)
    \/ \E action \in FileActions : NavDownload(action)
    \/ Tick

SpecNav == Init /\ [][NextNav]_vars

\* the faults that make a write of the cache file fail
PersistFaults == {"write_fail", "write_trunc"}

\* listing requests of one caller for one url, whose puts meet up to MaxFaults
\* failures to persist
NextPersist ==
    \/ \E force_refresh \in BOOLEAN : GetListing(1, "http://h/a/", force_refresh, "ok")
    \/ \E resp \in Responses, io \in {"ok"} \cup PersistFaults : Respond(1, resp, io)
    \/ Wake(1)
    \/ Return(1)
    \/ Tick

SpecPersist == Init /\ [][NextPersist]_vars

\* fetch_html_with_retry on its own, for every max_retries
NextRetry ==
    \/ \E url \in Urls, max_retries \in 0..MaxRetriesArg : FetchWithRetry(1, url, max_retries)
    \/ \E resp \in Responses : Respond(1, resp, "ok")
    \/ Wake(1)
    \/ Return(1)

SpecRetry == Init /\ [][NextRetry]_vars

\* client-error statuses: the three with a branch of their own, and others
ClientStatuses == {400, 401, 403, 404, 429, 499}

\* a server that answers every request, with a listing or a client error
ClientResponses ==
    {Http(200, b) : b \in Bodies} \cup {Http(s, <<>>) : s \in ClientStatuses}

\* fetch_html_with_retry against that server, for every max_retries
NextClient ==
    \/ \E url \in Urls, max_retries \in 0..MaxRetriesArg : FetchWithRetry(1, url, max_retries)
    \/ \E resp \in ClientResponses : Respond(1, resp, "ok")
    \/ Wake(1)
    \/ Return(1)

SpecClient == Init /\ [][NextClient]_vars

\* one caller of fetch_html_cached whose task may be cancelled at any await
NextCancel ==
    \/ \E url \in Urls, force_refresh \in BOOLEAN : GetListing(1, url, force_refresh, "ok")
    \/ \E resp \in Responses : Respond(1, resp, "ok")
    \/ Wake(1)
    \/ Cancel(1)
    \/ Return(1)
    \/ Tick

SpecCancel == Init /\ [][NextCancel]_vars

\* the TUI on one directory: every load_directory task is created by a
\* refresh, and the event loop runs the steps of the tasks in the order in
\* which they became ready
NextRefresh ==
    \/ \E c \in Callers : ActionRefresh(c, ServerUrl)
    \/ \E c \in Callers : Arrive(c)
    \/ \E c \in Callers : LoadDirectory(c)
    \/ \E c \in Callers, resp \in RaceResponses : Resume(c, resp)
    \/ \E c \in Callers : ResumeSleep(c)
    \/ \E c \in Callers : Return(c)
    \/ Tick

SpecRefresh == Init /\ [][NextRefresh]_vars

\* the ttl arguments get_cache_manager is called with
TtlArgs == 0..MaxTtl

\* processes that call get_cache_manager with any ttl, at their start and
\* later, and use the manager they get
NextSingleton ==
    \/ \E ttl \in TtlArgs : StartProcess(ttl)
    \/ \E ttl \in TtlArgs : GetCacheManager(ttl)
    \/ \E url \in Urls : Lookup(url, "ok")
    \/ \E url \in Urls, listing \in PutInputs : Put(url, listing, "ok")
    \/ Tick

SpecSingleton == Init /\ [][NextSingleton]_vars

\* the base URLs parse_html is called with on its own
ParseBases == Urls \cup {"http://h/a/b/"}

\* fetch_html_async called on its own and awaited to its end
Fetch(url, resp) ==
    /\ ret' = Ret("fetch", url, [resp |-> resp, got |-> fetch_html_async(resp)])
    /\ UNCHANGED <<now, ttl_seconds, memory_cache, cache_file, calls, faults, procs, nav, ready, bookmark_manager>>

\* parse_html called on its own
Parse(base_url, response_html) ==
    /\ ret' = Ret("parse", base_url,
                  [body |-> response_html, got |-> parse_html(base_url, response_html)])
    /\ UNCHANGED <<now, ttl_seconds, memory_cache, cache_file, calls, faults, procs, nav, ready, bookmark_manager>>

\* every fetching entry point, called by one caller on storage that works:
\* fetch_html_async, fetch_html_with_retry, fetch_html and fetch_html_cached
NextEntry ==
    \/ \E url \in Urls, resp \in ResponsesWith(StatusCodes) : Quiet /\ Fetch(url, resp)
    \/ \E url \in Urls : FetchWithRetry(1, url, DefaultMaxRetries)
    \/ \E url \in Urls : FetchHtml(1, url)
    \/ \E url \in Urls, force_refresh \in BOOLEAN : GetListing(1, url, force_refresh, "ok")
    \/ \E resp \in Responses : Respond(1, resp, "ok")
    \/ Wake(1)
    \/ Return(1)
    \/ Quiet /\ ClearAll("ok")

SpecEntry == Init /\ [][NextEntry]_vars

\* the two functions without state, applied to every input
NextPure ==
    \/ \E url \in Urls, resp \in ResponsesWith(StatusCodes) : Fetch(url, resp)
    \/ \E base_url \in ParseBases, response_html \in ParseBodies :
          Parse(base_url, response_html)

SpecPure == Init /\ [][NextPure]_vars

(* ---------------------------- properties ------------------------------ *)

\* the durable document as a reader of the file sees it
DurableDoc(file) == IF file.state = "json" THEN file.doc ELSE EmptyDict

Age(entry) == now - entry.timestamp
IsFresh(entry) == Age(entry) <= ttl_seconds

\* the listing an entry stands for: its folders, and its files without size
EntryFolders(entry) ==
    [i \in 1..Len(entry.folders) |->
        [name |-> entry.folders[i].name, url |-> entry.folders[i].url]]
EntryFiles(entry) ==
    [i \in 1..Len(entry.files) |->
        [name |-> entry.files[i].name, url |-> entry.files[i].url, size |-> None]]

\* the fresh entries held for url, in either tier
FreshEntries(url) ==
    {e \in ({memory_cache[k] : k \in (DOMAIN memory_cache) \cap {_url_to_hash(url)}}
            \cup {DurableDoc(cache_file)[k] :
                    k \in (DOMAIN DurableDoc(cache_file)) \cap {_url_to_hash(url)}}) :
        IsFresh(e)}

\* a step in which caller 1 starts fetch_html_cached(url, force_refresh)
Starts(url, force_refresh) ==
    /\ calls[1].pc = "idle"
    /\ calls'[1].pc # "idle"
    /\ calls'[1].kind = "cached"
    /\ calls'[1].url = url
    /\ calls'[1].force_refresh = force_refresh

\* caller 1's fetch_html_cached has ended with one of the typed fetch errors
FetchFailed ==
    /\ calls[1].pc = "done"
    /\ calls[1].kind = "cached"
    /\ calls[1].result.kind = "raise"
    /\ calls[1].result.exc \in FTPClientError

\* C1: a call getListing(url, forceRefresh = false) that finds a fresh entry for
\* url in either tier ends at once with that entry's folders and files, having
\* issued no request and awaited no sleep.
C1_HitWithoutNetwork ==
    [][\A url \in Urls :
          (Starts(url, FALSE) /\ FreshEntries(url) # {})
          => /\ calls'[1].pc = "done"
             /\ \E e \in FreshEntries(url) :
                   calls'[1].result = Returned(EntryFolders(e), EntryFiles(e), <<>>)
             /\ calls'[1].fetches = 0
             /\ calls'[1].sleeps = <<>>]_vars

\* C1 witness: a call served from the durable tier alone, a listing without files
C1_Witness ==
    /\ calls[1].pc = "done"
    /\ calls[1].kind = "cached"
    /\ ~calls[1].force_refresh
    /\ calls[1].result.kind = "return"
    /\ calls[1].result.files = <<>>
    /\ calls[1].fetches = 0
    /\ _url_to_hash(calls[1].url) \notin DOMAIN calls[1].pre.mem
    /\ _url_to_hash(calls[1].url) \in DOMAIN DurableDoc(calls[1].pre.file)

\* C2 as claimed: after a getListing whose fetch failed, both tiers hold exactly
\* what they held before the call.
C2_StoreAsBeforeCall ==
    FetchFailed => /\ memory_cache = calls[1].pre.mem
                   /\ cache_file = calls[1].pre.file

\* what the tiers hold once the lookup of a call on url has missed: the entry
\* found expired for url is gone from both, everything else is as before
AfterMiss(pre, url) ==
    LET k == _url_to_hash(url) IN
    [mem |-> [x \in (DOMAIN pre.mem) \ {k} |-> pre.mem[x]],
     file |-> IF k \in DOMAIN DurableDoc(pre.file)
              THEN FileJson([x \in (DOMAIN DurableDoc(pre.file)) \ {k} |->
                                DurableDoc(pre.file)[x]])
              ELSE pre.file]

\* C2 amended: after a getListing whose fetch failed the error is the caller's
\* result and the fetch path has written nothing: with forceRefresh both tiers
\* are as before the call; without it they are as the call's lookup left them
\* (an expired entry of the requested key removed, all else as before) and hold
\* no entry for the requested key.
C2_FailedFetchWritesNothing ==
    FetchFailed =>
        /\ calls[1].last_outcome = Some(calls[1].result.exc)
        /\ IF calls[1].force_refresh
           THEN /\ memory_cache = calls[1].pre.mem
                /\ cache_file = calls[1].pre.file
           ELSE /\ memory_cache = AfterMiss(calls[1].pre, calls[1].url).mem
                /\ cache_file = AfterMiss(calls[1].pre, calls[1].url).file
                /\ _url_to_hash(calls[1].url) \notin DOMAIN memory_cache
                /\ _url_to_hash(calls[1].url) \notin DOMAIN DurableDoc(cache_file)

\* C2 witness: a failed fetch of a call that found an expired entry in both tiers
C2_Witness ==
    /\ FetchFailed
    /\ ~calls[1].force_refresh
    /\ _url_to_hash(calls[1].url) \in DOMAIN calls[1].pre.mem
    /\ _url_to_hash(calls[1].url) \in DOMAIN DurableDoc(calls[1].pre.file)
    /\ calls[1].fetches = DefaultMaxRetries

\* the entries a store holds for url: the in-process one and the durable one
EntriesFor(store, url) ==
    {store.mem[k] : k \in (DOMAIN store.mem) \cap {_url_to_hash(url)}}
    \cup {DurableDoc(store.file)[k] :
            k \in (DOMAIN DurableDoc(store.file)) \cap {_url_to_hash(url)}}

Current == [mem |-> memory_cache, file |-> cache_file]

\* val is a hit that carries the listing of entry
HitOf(val, entry) ==
    /\ val.hit
    /\ val.folders = EntryFolders(entry)
    /\ val.files = EntryFiles(entry)

\* C3: whatever lookup returns comes from an entry that is at most ttl old, in
\* whichever tier it was found and whatever operations and storage faults came
\* before.
C3_FreshnessBound ==
    (ret.op = "lookup" /\ ret.val.hit)
    => \E e \in EntriesFor(ret.pre, ret.url) : Age(e) <= ttl_seconds /\ HitOf(ret.val, e)

\* C3 witness: a lookup has returned an entry that is exactly ttl old
C3_Witness ==
    /\ ret.op = "lookup"
    /\ ret.val.hit
    /\ ttl_seconds >= 1
    /\ \A e \in EntriesFor(ret.pre, ret.url) : Age(e) = ttl_seconds

C5_FetchParsePut ==
    [][(/\ calls[1].pc = "fetch"
        /\ calls[1].kind = "cached"
        /\ calls'[1].pc = "done"
        /\ calls'[1].result.kind = "return")
       => /\ calls'[1].fetches >= 1
          /\ calls'[1].last_outcome = Some("ok")
          /\ calls'[1].result.body \in Bodies
          /\ parse_html(calls[1].url, calls'[1].result.body)
                = Parsed(None, calls'[1].result.folders, calls'[1].result.files)
          /\ get_cached_listing(memory_cache', cache_file', now', ttl_seconds',
                                calls[1].url, "ok").val
                = [hit |-> TRUE, folders |-> calls'[1].result.folders,
                   files |-> calls'[1].result.files]]_vars

\* C5 witness: a listing with a file, fetched at the second attempt of a call
\* that found nothing in the cache
C5_Witness ==
    /\ calls[1].pc = "done"
    /\ calls[1].kind = "cached"
    /\ ~calls[1].force_refresh
    /\ calls[1].lookups = 1
    /\ calls[1].fetches = 2
    /\ calls[1].result.kind = "return"
    /\ calls[1].result.files # <<>>

\* the entry a put at the current time makes of a listing of url
EntryNow(url, folders, files) ==
    [url |-> url, timestamp |-> now,
     folders |-> [i \in 1..Len(folders) |->
                    [name |-> folders[i].name, url |-> folders[i].url]],
     files |-> [i \in 1..Len(files) |->
                    [name |-> files[i].name, url |-> files[i].url]]]

\* C6: getListing(url, forceRefresh = true) issues a request without consulting
\* or touching the cache, even when a fresh entry exists, and when it succeeds
\* both tiers hold for url the fetched listing with the time of its arrival.
C6_ForceRefreshBypasses ==
    [][/\ \A url \in Urls :
            Starts(url, TRUE)
            => /\ calls'[1].pc = "fetch"
               /\ calls'[1].fetches = 1
               /\ calls'[1].lookups = 0
               /\ UNCHANGED <<memory_cache, cache_file>>
       /\ (/\ calls[1].pc = "fetch"
           /\ calls[1].kind = "cached"
           /\ calls[1].force_refresh
           /\ calls'[1].pc = "done"
           /\ calls'[1].result.kind = "return")
          => LET k == _url_to_hash(calls[1].url)
                 e == EntryNow(calls[1].url, calls'[1].result.folders,
                               calls'[1].result.files)
             IN  /\ k \in DOMAIN memory_cache'
                 /\ memory_cache'[k] = e
                 /\ k \in DOMAIN DurableDoc(cache_file')
                 /\ DurableDoc(cache_file')[k] = e]_vars

\* C6 witness: a forced refresh has replaced an entry that was still fresh by a
\* different listing with a later timestamp
C6_Witness ==
    /\ calls[1].pc = "done"
    /\ calls[1].force_refresh
    /\ calls[1].result.kind = "return"
    /\ LET k == _url_to_hash(calls[1].url)
       IN  /\ k \in DOMAIN calls[1].pre.mem
           /\ k \in DOMAIN memory_cache
           /\ IsFresh(calls[1].pre.mem[k])
           /\ calls[1].pre.mem[k].timestamp < memory_cache[k].timestamp
           /\ calls[1].pre.mem[k].files # memory_cache[k].files

\* C7: on storage that works, a lookup of a key that holds an entry at most ttl
\* old returns that entry, and a lookup of a key whose entry is older than ttl
\* returns absent and leaves the key in neither tier.
C7_TtlBoundary ==
    ret.op = "lookup"
    => LET held == EntriesFor(ret.pre, ret.url)
           k == _url_to_hash(ret.url)
       IN  /\ \A e \in held : Age(e) <= ttl_seconds => HitOf(ret.val, e)
           /\ (held # {} /\ \A e \in held : Age(e) > ttl_seconds)
              => /\ ret.val = Absent
                 /\ k \notin DOMAIN memory_cache
                 /\ k \notin DOMAIN DurableDoc(cache_file)

\* C7 witness: a lookup has found, in both tiers, an entry one second past its ttl
C7_Witness ==
    /\ ret.op = "lookup"
    /\ ~ret.val.hit
    /\ _url_to_hash(ret.url) \in DOMAIN ret.pre.mem
    /\ _url_to_hash(ret.url) \in DOMAIN DurableDoc(ret.pre.file)
    /\ \A e \in EntriesFor(ret.pre, ret.url) : Age(e) = ttl_seconds + 1

\* C8 as claimed: a lookup right after put(url, folders, files) returns the
\* folders and files that were put, every field included.
C8_RoundTrip ==
    ret.op = "put"
    => get_cached_listing(memory_cache, cache_file, now, ttl_seconds, ret.url, "ok").val
          = [hit |-> TRUE, folders |-> ret.val.folders, files |-> ret.val.files]

Terminal == {"AuthenticationError", "NotFoundError"}

\* C9 as claimed: a call that ends with Authentication or NotFound has made
\* exactly one attempt and no sleep.
C9_TerminalAfterOneAttempt ==
    (/\ calls[1].pc = "done"
     /\ calls[1].result.kind = "raise"
     /\ calls[1].result.exc \in Terminal)
    => /\ calls[1].fetches = 1
       /\ calls[1].sleeps = <<>>

\* C9 amended: an attempt that fails with Authentication or NotFound is the last
\* one of its call: the call ends with that error, no retry and no sleep follow,
\* so at attempt index i it has made i + 1 attempts and i sleeps (one attempt
\* and no sleep when it is the first).
C9_TerminalEndsCall ==
    \A exc \in Terminal :
        calls[1].last_outcome = Some(exc)
        => /\ calls[1].pc = "done"
           /\ calls[1].result = Raised(exc)
           /\ calls[1].max_retries >= 1
           /\ calls[1].fetches = calls[1].attempt + 1
           /\ Len(calls[1].sleeps) = calls[1].attempt
           /\ calls[1].attempt = 0 => (calls[1].fetches = 1 /\ calls[1].sleeps = <<>>)

\* C9 witness: NotFound at the second attempt of a call allowed four
C9_Witness ==
    /\ calls[1].pc = "done"
    /\ calls[1].result = Raised("NotFoundError")
    /\ calls[1].max_retries = 4
    /\ calls[1].fetches = 2
    /\ Len(calls[1].sleeps) = 1

\* C10: fetchWithRetry never makes more than maxRetries attempts and sleeps
\* only between two attempts; when every attempt failed with a retryable error
\* it ends after exactly maxRetries attempts and maxRetries - 1 sleeps, with
\* the error of the last attempt.
C10_AttemptsBounded ==
    calls[1].kind = "retry"
    => /\ calls[1].fetches <= calls[1].max_retries
       /\ calls[1].pc = "fetch" => Len(calls[1].sleeps) = calls[1].fetches - 1
       /\ calls[1].pc = "sleep"
          => /\ Len(calls[1].sleeps) = calls[1].fetches
             /\ calls[1].fetches < calls[1].max_retries
       /\ \A exc \in {"ConnectionError", "TimeoutError", "ServerError"} :
             (calls[1].pc = "done" /\ calls[1].last_outcome = Some(exc))
             => /\ calls[1].fetches = calls[1].max_retries
                /\ Len(calls[1].sleeps) = calls[1].max_retries - 1
                /\ calls[1].result = Raised(exc)

\* C10 witness: three attempts of three have failed, the last with a timeout
C10_Witness ==
    /\ calls[1].pc = "done"
    /\ calls[1].kind = "retry"
    /\ calls[1].max_retries = 3
    /\ calls[1].fetches = 3
    /\ calls[1].sleeps = <<1, 2>>
    /\ calls[1].result = Raised("TimeoutError")

\* the sleeps 2^0, 2^1, ..., 2^(k-1)
Backoff(k) == [i \in 1..k |-> Pow2(i - 1)]

\* C11: the sleeps of a fetchWithRetry call are 1, 2, 4, ... seconds in that
\* order, one after each failed attempt that is retried and before the next
\* attempt; a call whose first k attempts failed retryably and whose attempt
\* k + 1 succeeded returns the body of that attempt after k retries and the
\* sleeps 2^0 .. 2^(k-1).
C11_BackoffSchedule ==
    calls[1].kind = "retry"
    => /\ calls[1].sleeps = Backoff(Len(calls[1].sleeps))
       /\ calls[1].pc = "fetch" => Len(calls[1].sleeps) = calls[1].fetches - 1
       /\ calls[1].pc = "sleep" => Len(calls[1].sleeps) = calls[1].fetches
       /\ (calls[1].pc = "done" /\ calls[1].last_outcome = Some("ok"))
          => /\ calls[1].result.kind = "return"
             /\ calls[1].result.body \in Bodies
             /\ calls[1].fetches <= calls[1].max_retries
             /\ calls[1].sleeps = Backoff(calls[1].fetches - 1)
       /\ (calls[1].pc = "done" /\ calls[1].result.kind = "return")
          => calls[1].last_outcome = Some("ok")

\* C11 witness: success at the fourth attempt of four, after sleeps 1, 2, 4
C11_Witness ==
    /\ calls[1].pc = "done"
    /\ calls[1].kind = "retry"
    /\ calls[1].max_retries = 4
    /\ calls[1].result.kind = "return"
    /\ calls[1].result.body = DocListing
    /\ calls[1].fetches = 4
    /\ calls[1].sleeps = <<1, 2, 4>>

\* C12: every response is classified in exactly one way: 401 and 403 as
\* Authentication, 404 as NotFound, 500 and above as ServerError, the rest of
\* 400..499 as ConnectionError, below 400 as the body without error; a transport
\* timeout as Timeout and every other transport failure as ConnectionError.
C12_StatusClassification ==
    ret.op = "fetch"
    => LET resp == ret.val.resp
           got == ret.val.got
           s == resp.status
       IN  /\ Cardinality(got.exc) <= 1
           /\ got.exc # None => got.body = <<>>
           /\ resp.kind = "http"
              => /\ s \in {401, 403} => got.exc = Some("AuthenticationError")
                 /\ s = 404 => got.exc = Some("NotFoundError")
                 /\ s >= 500 => got.exc = Some("ServerError")
                 /\ (s \in 400..499 /\ s \notin {401, 403, 404})
                    => got.exc = Some("ConnectionError")
                 /\ s < 400 => got = Fetched(None, resp.body)
           /\ resp.kind = "timeout" => got.exc = Some("TimeoutError")
           /\ resp.kind \in {"connector", "client_error"}
              => got.exc = Some("ConnectionError")

\* C12 witness: a 404 has been classified as NotFound
C12_Witness ==
    /\ ret.op = "fetch"
    /\ ret.val.resp.kind = "http"
    /\ ret.val.resp.status = 404
    /\ ret.val.got = Fetched(Some("NotFoundError"), <<>>)

\* C13 as claimed: a getListing that fails, fails with one of the five typed
\* errors, whatever body the server returned.
C13_ClosedTaxonomy ==
    (/\ calls[1].pc = "done"
     /\ calls[1].kind = "cached"
     /\ calls[1].result.kind = "raise")
    => calls[1].result.exc \in FTPClientError

RECURSIVE WithHref(_, _)
\* the anchors of as that carry an href attribute, in order
WithHref(as, i) ==
    IF i > Len(as) THEN <<>>
    ELSE (IF as[i].href = None THEN <<>> ELSE <<as[i]>>) \o WithHref(as, i + 1)

\* the document without its href-less anchors
SkipHrefless(doc) ==
    [i \in 1..Len(doc) |-> Cell(doc[i].class, WithHref(doc[i].anchors, 1))]

\* C15 as claimed: parse returns a listing for every document; an anchor
\* without href is skipped and the other anchors are classified as if it were
\* not there.
C15_ParserNeverRaises ==
    ret.op = "parse"
    => /\ ret.val.got.exc = None
       /\ ret.val.got = parse_html(ret.url, SkipHrefless(ret.val.body))

\* the fetch under caller 1's entry point has ended in an error of the taxonomy
FetchEndedInError ==
    /\ calls[1].pc = "done"
    /\ calls[1].last_outcome # None
    /\ calls[1].last_outcome \subseteq FTPClientError

\* C14 as claimed: whichever entry point is called (fetch, fetchWithRetry, the
\* synchronous wrapper, getListing), when its fetch ends in an error the caller
\* gets no successful value and neither tier has gained an entry.
C14_NoErrorBecomesSuccess ==
    /\ (ret.op = "fetch" /\ ret.val.got.exc # None)
       => /\ ret.val.got.body = <<>>
          /\ Current = ret.pre
    /\ FetchEndedInError
       => /\ calls[1].result.kind = "raise"
          /\ DOMAIN memory_cache \subseteq DOMAIN calls[1].pre.mem
          /\ DOMAIN DurableDoc(cache_file) \subseteq DOMAIN DurableDoc(calls[1].pre.file)

\* store holds url in neither tier
KeyAbsent(store, url) ==
    /\ _url_to_hash(url) \notin DOMAIN store.mem
    /\ _url_to_hash(url) \notin DOMAIN DurableDoc(store.file)

\* C16: on storage that works, invalidate(url) leaves url in neither tier, so a
\* lookup of url returns absent, and it stays so until a put of url; a second
\* invalidate changes nothing, and an invalidate of a key held by neither tier
\* changes nothing at all.
C16_Invalidate ==
    [][/\ ret'.op = "invalidate"
          => /\ KeyAbsent(Current', ret'.url)
             /\ get_cached_listing(memory_cache', cache_file', now', ttl_seconds',
                                   ret'.url, "ok").val = Absent
             /\ invalidate_cache(memory_cache', cache_file', ret'.url, "ok")
                   = Store(memory_cache', cache_file', None)
             /\ KeyAbsent(ret'.pre, ret'.url) => Current' = ret'.pre
       /\ \A url \in Urls :
             (KeyAbsent(Current, url) /\ ~(ret'.op = "put" /\ ret'.url = url))
             => /\ KeyAbsent(Current', url)
                /\ get_cached_listing(memory_cache', cache_file', now', ttl_seconds',
                                      url, "ok").val = Absent]_vars

\* C16 witness: invalidate has removed a fresh entry held by both tiers, next to
\* an entry of another key that it has left alone
C16_Witness ==
    /\ ret.op = "invalidate"
    /\ _url_to_hash(ret.url) \in DOMAIN ret.pre.mem
    /\ _url_to_hash(ret.url) \in DOMAIN DurableDoc(ret.pre.file)
    /\ IsFresh(ret.pre.mem[_url_to_hash(ret.url)])
    /\ KeyAbsent(Current, ret.url)
    /\ DOMAIN memory_cache # {}
    /\ DOMAIN DurableDoc(cache_file) # {}

\* C17: on storage that works, after clearAll the in-process map is empty and
\* the file is gone, every lookup returns absent and stats counts no entry,
\* whether or not there was a file before.
C17_ClearAll ==
    ret.op = "clear"
    => /\ memory_cache = EmptyDict
       /\ cache_file = FileMissing
       /\ \A url \in Urls :
             get_cached_listing(memory_cache, cache_file, now, ttl_seconds, url, "ok").val
                = Absent
       /\ get_cache_stats(memory_cache, cache_file, now, ttl_seconds, "ok").val.total_entries
             = 0

\* C17 witness: clearAll on a store that held two keys in both tiers
C17_Witness ==
    /\ ret.op = "clear"
    /\ Cardinality(DOMAIN ret.pre.mem) = 2
    /\ Cardinality(DOMAIN DurableDoc(ret.pre.file)) = 2
    /\ cache_file = FileMissing

\* the keys of doc whose entries are older than ttl
Expired(doc) == {k \in DOMAIN doc : Age(doc[k]) > ttl_seconds}

\* C18: on storage that works, purgeExpired removes from the durable document
\* exactly the entries older than ttl and keeps the others as they are, returns
\* the number removed, writes the file only when that number is positive, and
\* leaves the in-process map as it is.
C18_PurgeExpired ==
    ret.op = "purge"
    => LET old == DurableDoc(ret.pre.file)
           kept == [k \in (DOMAIN old) \ Expired(old) |-> old[k]]
       IN  /\ DurableDoc(cache_file) = kept
           /\ ret.val = Cardinality(Expired(old))
           /\ ret.val = 0 => cache_file = ret.pre.file
           /\ ret.val > 0 => cache_file = FileJson(kept)
           /\ memory_cache = ret.pre.mem

\* C18 witness: one entry of two removed, the in-process map still holding both
C18_Witness ==
    /\ ret.op = "purge"
    /\ ret.val = 1
    /\ Cardinality(DOMAIN DurableDoc(ret.pre.file)) = 2
    /\ Cardinality(DOMAIN DurableDoc(cache_file)) = 1
    /\ Cardinality(DOMAIN memory_cache) = 2

\* C19: stats changes neither tier, counts the entries of the durable document
\* only, and total = valid + expired where expired counts the durable entries
\* older than ttl.
C19_StatsReadOnly ==
    ret.op = "stats"
    => /\ Current = ret.pre
       /\ ret.val.total_entries = Cardinality(DOMAIN DurableDoc(cache_file))
       /\ ret.val.expired_entries = Cardinality(Expired(DurableDoc(cache_file)))
       /\ ret.val.total_entries = ret.val.valid_entries + ret.val.expired_entries
       /\ ret.val.valid_entries >= 0

\* C19 witness: stats on a store whose in-process map holds a key the durable
\* document has lost, the one durable entry being expired
C19_Witness ==
    /\ ret.op = "stats"
    /\ \E k \in DOMAIN memory_cache : k \notin DOMAIN DurableDoc(cache_file)
    /\ ret.val.total_entries = 1
    /\ ret.val.expired_entries = 1

\* what the operation that has just run does on a store with the same
\* in-process map and no file
OnMissingFile ==
    CASE ret.op = "lookup" ->
           get_cached_listing(ret.pre.mem, FileMissing, now, ttl_seconds, ret.url, "ok")
      [] ret.op = "put" ->
           cache_listing(ret.pre.mem, FileMissing, now, ret.url,
                         ret.val.folders, ret.val.files, "ok")
      [] ret.op = "invalidate" -> invalidate_cache(ret.pre.mem, FileMissing, ret.url, "ok")
      [] ret.op = "purge" ->
           cleanup_expired(ret.pre.mem, FileMissing, now, ttl_seconds, "ok")
      [] ret.op = "stats" ->
           get_cache_stats(ret.pre.mem, FileMissing, now, ttl_seconds, "ok")

\* C20 as claimed: a lookup, put, invalidate, purgeExpired or stats on a store
\* whose file is not JSON returns what it returns on a store without file and
\* leaves the same entries in both tiers.
C20_CorruptAsMissing ==
    (/\ ret.op \in {"lookup", "put", "invalidate", "purge", "stats"}
     /\ ret.pre.file = FileCorrupt)
    => /\ memory_cache = OnMissingFile.mem
       /\ DurableDoc(cache_file) = DurableDoc(OnMissingFile.file)
       /\ ret.op # "put" => ret.val = OnMissingFile.val

\* C29: lookup consults the in-process map first: an entry that is fresh there
\* is returned whatever the file holds and whether or not it can be read, and
\* neither tier changes; when the key is not in the in-process map and fresh in
\* the durable document, lookup returns that entry and the in-process map holds
\* it afterwards, equal to the durable one.
C29_TierOrderAndPromotion ==
    /\ \A url \in Urls :
          LET k == _url_to_hash(url) IN
          (k \in DOMAIN memory_cache /\ IsFresh(memory_cache[k]))
          => \A file \in {cache_file, FileMissing, FileCorrupt}, io \in IOChoices :
                get_cached_listing(memory_cache, file, now, ttl_seconds, url, io)
                   = Store(memory_cache, file, Hit(memory_cache[k]))
    /\ ret.op = "lookup"
       => LET k == _url_to_hash(ret.url)
              old == DurableDoc(ret.pre.file)
          IN  (k \notin DOMAIN ret.pre.mem /\ k \in DOMAIN old /\ IsFresh(old[k]))
              => /\ HitOf(ret.val, old[k])
                 /\ k \in DOMAIN memory_cache
                 /\ memory_cache[k] = old[k]
                 /\ cache_file = ret.pre.file
                 /\ DurableDoc(cache_file)[k] = memory_cache[k]

\* C29 witness: after a restart a lookup has found the key in the file only and
\* has brought it into the in-process map
C29_Witness ==
    /\ ret.op = "lookup"
    /\ ret.val.hit
    /\ ret.val.files # <<>>
    /\ ret.pre.mem = EmptyDict
    /\ _url_to_hash(ret.url) \in DOMAIN memory_cache
    /\ memory_cache[_url_to_hash(ret.url)] = DurableDoc(cache_file)[_url_to_hash(ret.url)]

\* the entry each tier of store holds for url, if any
TierEntries(store, url) ==
    [mem |-> {store.mem[k] : k \in (DOMAIN store.mem) \cap {_url_to_hash(url)}},
     file |-> {DurableDoc(store.file)[k] :
                 k \in (DOMAIN DurableDoc(store.file)) \cap {_url_to_hash(url)}}]

\* C24: URLs are hashed as they are: two URLs have the same key only if they
\* are the same string, every entry sits under the key of its own url, a lookup
\* of url returns only an entry cached under url itself, and a put of url leaves
\* the entry of every other url (one with a trailing slash more or less
\* included) as it was.
C24_KeysNotNormalized ==
    /\ \A u, v \in Urls : (_url_to_hash(u) = _url_to_hash(v)) <=> (u = v)
    /\ \A k \in DOMAIN memory_cache : k = _url_to_hash(memory_cache[k].url)
    /\ \A k \in DOMAIN DurableDoc(cache_file) :
          k = _url_to_hash(DurableDoc(cache_file)[k].url)
    /\ (ret.op = "lookup" /\ ret.val.hit)
       => \E e \in EntriesFor(ret.pre, ret.url) : e.url = ret.url /\ HitOf(ret.val, e)
    /\ ret.op = "put"
       => \A u \in Urls \ {ret.url} : TierEntries(Current, u) = TierEntries(ret.pre, u)

\* C24 witness: a lookup of the url without trailing slash has missed while the
\* url with trailing slash is cached and fresh in both tiers
C24_Witness ==
    /\ ret.op = "lookup"
    /\ ret.url = "http://h/a"
    /\ ~ret.val.hit
    /\ _url_to_hash("http://h/a/") \in DOMAIN memory_cache
    /\ _url_to_hash("http://h/a/") \in DOMAIN DurableDoc(cache_file)
    /\ IsFresh(memory_cache[_url_to_hash("http://h/a/")])

\* the anchors of the name cells of doc, in document order
NameAnchors(doc) == find_all_a(doc, 1)

HrefOf(a) == CHOOSE h \in a.href : TRUE

\* the anchors that are not parent links, and among them the folders and files
NotParent(a) == ~StartsWith(HrefOf(a), "..")
IsFolderAnchor(a) == NotParent(a) /\ EndsWith(HrefOf(a), "/")
IsFileAnchor(a) == NotParent(a) /\ ~EndsWith(HrefOf(a), "/")

\* C22 as claimed: for every document, of the anchors with href in its name
\* cells, those whose href starts with ".." are skipped, the others are
\* folders when the href ends with "/" and files when not, each with its href
\* resolved against the base and in document order, after the one synthetic
\* ".." folder; base http://h/a/b/ with hrefs c/d.mp4, c/, .. gives file
\* http://h/a/b/c/d.mp4, folder http://h/a/b/c/ and no second parent.
C22_ClassificationAndOrder ==
    ret.op = "parse"
    => LET base == ret.url
           anchors == WithHref(NameAnchors(ret.val.body), 1)
           fo == SelectSeq(anchors, IsFolderAnchor)
           fi == SelectSeq(anchors, IsFileAnchor)
           got == ret.val.got
       IN  /\ got.exc = None
           /\ got.folders = <<Folder("..", urljoin(base, ".."))>>
                 \o [i \in 1..Len(fo) |-> Folder(fo[i].text, urljoin(base, HrefOf(fo[i])))]
           /\ got.files =
                 [i \in 1..Len(fi) |-> File(fi[i].text, urljoin(base, HrefOf(fi[i])), None)]
           /\ (base = "http://h/a/b/" /\ ret.val.body = DocExample)
              => /\ got.folders = <<Folder("..", "http://h/a/"), Folder("c", "http://h/a/b/c/")>>
                 /\ got.files = <<File("d.mp4", "http://h/a/b/c/d.mp4", None)>>
           /\ (base = "http://h/a/" /\ ret.val.body = DocOrder)
              => /\ got.folders = <<Folder("..", "http://h/"), Folder("b", "http://h/a/b/"),
                                    Folder("a", "http://h/a/a/"), Folder("", "http://o/z/")>>
                 /\ got.files = <<File("1.txt", "http://h/a/1.txt", None),
                                  File("2.txt", "http://h/abs/2.txt", None)>>

\* C23 as claimed: for every document parse returns folders whose first element
\* is the synthetic parent ".." with the url of the base resolved against
\* ".."; a document without name cells gives that folder alone and no file;
\* and parsing the same base and document again gives the same sequences.
C23_ParentFirst ==
    ret.op = "parse"
    => LET got == ret.val.got IN
       /\ got.exc = None
       /\ Len(got.folders) >= 1
       /\ got.folders[1] = Folder("..", urljoin(ret.url, ".."))
       /\ got.folders[1].url = (IF ret.url = "http://h/a/b/" THEN "http://h/a/" ELSE "http://h/")
       /\ (\A i \in 1..Len(ret.val.body) : ret.val.body[i].class # "fb-n")
          => got = Parsed(None, <<Folder("..", urljoin(ret.url, ".."))>>, <<>>)
       /\ parse_html(ret.url, ret.val.body) = got

\* a step in which caller 1's getListing ends with a listing it has fetched
FetchedAndReturned ==
    /\ calls[1].pc = "fetch"
    /\ calls[1].kind = "cached"
    /\ calls'[1].pc = "done"
    /\ calls'[1].result.kind = "return"

\* C21: whether or not the file can be written, a getListing that fetched
\* returns its parsed listing and the in-process map holds the new entry; an
\* entry of the in-process map stays as it is until a later put of its url, its
\* expiry, or the end of the process; and while it is at most ttl old a lookup
\* of its url returns it, whatever has become of the file.
C21_PersistFailureTolerated ==
    [][/\ FetchedAndReturned
          => LET k == _url_to_hash(calls[1].url) IN
             /\ parse_html(calls[1].url, calls'[1].result.body)
                   = Parsed(None, calls'[1].result.folders, calls'[1].result.files)
             /\ k \in DOMAIN memory_cache'
             /\ memory_cache'[k] = EntryNow(calls[1].url, calls'[1].result.folders,
                                            calls'[1].result.files)
       /\ \A url \in Urls :
             LET k == _url_to_hash(url) IN
             /\ (k \in DOMAIN memory_cache
                  /\ ~(FetchedAndReturned /\ calls[1].url = url)
                  /\ ~(Starts(url, FALSE) /\ ~IsFresh(memory_cache[k])))
                => (k \in DOMAIN memory_cache' /\ memory_cache'[k] = memory_cache[k])
             /\ (k \in DOMAIN memory_cache' /\ now' - memory_cache'[k].timestamp <= ttl_seconds')
                => \A io \in IOChoices :
                      get_cached_listing(memory_cache', cache_file', now', ttl_seconds',
                                         url, io)
                         = Store(memory_cache', cache_file', Hit(memory_cache'[k]))]_vars

\* C21 witness: a getListing served from the in-process map a second after the
\* put of a fetched listing with a file failed to persist it
C21_Witness ==
    /\ calls[1].pc = "done"
    /\ calls[1].kind = "cached"
    /\ calls[1].fetches = 0
    /\ calls[1].result.kind = "return"
    /\ calls[1].result.files # <<>>
    /\ faults >= 1
    /\ _url_to_hash(calls[1].url) \notin DOMAIN DurableDoc(cache_file)
    /\ _url_to_hash(calls[1].url) \in DOMAIN memory_cache
    /\ memory_cache[_url_to_hash(calls[1].url)].timestamp < now

\* a step in which caller c's getListing ends with a listing it has fetched,
\* and so with a put
PutBy(c) ==
    /\ calls[c].pc = "fetch"
    /\ calls[c].kind = "cached"
    /\ calls'[c].pc = "done"
    /\ calls'[c].result.kind = "return"

\* a step in which caller c starts a getListing
StartsBy(c) == calls[c].pc = "idle" /\ calls'[c].pc # "idle" /\ calls'[c].kind = "cached"

\* the two tiers hold entry for url
BothHold(store, url, entry) ==
    TierEntries(store, url) = [mem |-> {entry}, file |-> {entry}]

\* C25: on storage that works and with any interleaving of the getListing
\* calls of two callers on one url, every put leaves its own entry in both
\* tiers, and until the next put each tier holds for the key what the last put
\* wrote or nothing, so that both tiers hold the entry of the put that
\* completed last and agree whenever both hold the key.
C25_LastPutWins ==
    [][\A url \in Urls :
          /\ \A c \in Callers :
                (PutBy(c) /\ calls[c].url = url)
                => BothHold(Current', url,
                            EntryNow(url, calls'[c].result.folders, calls'[c].result.files))
          /\ (\A c \in Callers : ~(PutBy(c) /\ calls[c].url = url))
             => /\ TierEntries(Current', url).mem
                     \subseteq (TierEntries(Current, url).mem \cup TierEntries(Current, url).file)
                /\ TierEntries(Current', url).file \subseteq TierEntries(Current, url).file
          /\ (TierEntries(Current', url).mem # {} /\ TierEntries(Current', url).file # {})
             => TierEntries(Current', url).mem = TierEntries(Current', url).file]_vars

\* C25 witness: both callers have fetched and put, caller 1 a listing without
\* files and caller 2 a listing with a file; both tiers hold caller 2's listing,
\* written a second or more after the calls began
C25_Witness ==
    /\ \A c \in Callers :
          /\ calls[c].pc = "done"
          /\ calls[c].fetches >= 1
          /\ calls[c].result.kind = "return"
    /\ calls[1].url = calls[2].url
    /\ calls[1].result.files = <<>>
    /\ calls[2].result.files # <<>>
    /\ now >= 1
    /\ BothHold(Current, calls[2].url,
                EntryNow(calls[2].url, calls[2].result.folders, calls[2].result.files))

\* C26: nothing makes a caller wait for a fetch that is already under way: a
\* getListing that finds its key in neither tier issues a request of its own,
\* whatever the other caller is doing, and every getListing that fetched a
\* listing writes it to the durable document; so two callers on one cold key
\* both fetch and both write.
C26_NoSingleFlight ==
    [][\A c \in Callers :
          /\ (StartsBy(c) /\ KeyAbsent(Current, calls'[c].url))
             => /\ calls'[c].pc = "fetch"
                /\ calls'[c].fetches = 1
          /\ PutBy(c)
             => LET k == _url_to_hash(calls[c].url) IN
                /\ k \in DOMAIN DurableDoc(cache_file')
                /\ DurableDoc(cache_file')[k]
                      = EntryNow(calls[c].url, calls'[c].result.folders,
                                 calls'[c].result.files)]_vars

\* C26 witness: two callers found the same key in neither tier, both have issued
\* a request and both have ended with a put
C26_Witness ==
    /\ \A c \in Callers :
          /\ calls[c].pc = "done"
          /\ calls[c].kind = "cached"
          /\ calls[c].lookups = 1
          /\ calls[c].fetches >= 1
          /\ calls[c].result.kind = "return"
          /\ KeyAbsent(calls[c].pre, calls[c].url)
    /\ calls[1].url = calls[2].url
    /\ calls[1].pre = calls[2].pre

\* C28: a caller inside getListing is suspended only in a request or in a
\* backoff sleep; a step runs one caller, or one store operation, from one such
\* point to the next, so the store changes only within such a step, and a
\* caller whose request has succeeded has parsed and put within the same step:
\* no state lies between the end of the fetch and the end of the put.
C28_YieldPoints ==
    [][/\ \A c \in Callers :
             /\ calls'[c].pc \in {"idle", "fetch", "sleep", "done"}
             /\ (calls'[c].kind = "cached" /\ calls'[c].last_outcome = Some("ok"))
                => calls'[c].pc = "done"
             /\ PutBy(c)
                => BothHold(Current', calls[c].url,
                            EntryNow(calls[c].url, calls'[c].result.folders,
                                     calls'[c].result.files))
             /\ \A d \in Callers \ {c} :
                   calls'[c] # calls[c] => calls'[d] = calls[d]
       /\ Current' # Current
          => \/ \E c \in Callers : StartsBy(c) \/ PutBy(c)
             \/ (ret'.op = "invalidate" /\ calls' = calls)]_vars

\* C28 witness: caller 1 has fetched and put while caller 2 is in a backoff
\* sleep, having started before caller 1's put
C28_Witness ==
    /\ calls[1].pc = "done"
    /\ calls[1].fetches >= 1
    /\ calls[1].result.kind = "return"
    /\ calls[2].pc = "sleep"
    /\ calls[2].pre = calls[1].pre
    /\ BothHold(Current, calls[1].url,
                EntryNow(calls[1].url, calls[1].result.folders, calls[1].result.files))

\* a step in which process p writes the document of its put
SavesBy(p) == procs[p].pending # None /\ procs'[p].pending = None

\* what process p is about to write
Pending(p) == CHOOSE x \in procs[p].pending : TRUE

\* C27: two processes that share the cache file overwrite each other: the write
\* that ends a put leaves in the file the document the process read when its
\* put began, with its own entry set, or no JSON at all when it falls on what
\* the other process wrote meanwhile; either way a key that another process
\* has written since that read is no longer in the file.
C27_LastWriterWins ==
    [][\A p \in Procs :
          SavesBy(p)
          => /\ cache_file' \in
                   {FileJson(DictSet(Pending(p).cache_data, Pending(p).url_hash,
                                     Pending(p).entry)),
                    FileCorrupt}
             /\ \A k \in DOMAIN DurableDoc(cache_file) :
                   (k \notin DOMAIN Pending(p).cache_data /\ k # Pending(p).url_hash)
                   => k \notin DOMAIN DurableDoc(cache_file')]_vars

\* C27 witness: both processes have completed a put, each of a key of its own,
\* and the file holds the key of process 2 alone: the entry of process 1 is
\* left in its _memory_cache only
C27_Witness ==
    /\ \A p \in Procs : procs[p].pending = None
    /\ DOMAIN procs[1].mem = {_url_to_hash("http://h/a/")}
    /\ DOMAIN procs[2].mem = {_url_to_hash("http://h/a")}
    /\ cache_file.state = "json"
    /\ DOMAIN cache_file.doc = {_url_to_hash("http://h/a")}

\* the loop of main_async is at its top, the last action chosen was refresh
AfterRefresh == nav.action = "refresh" /\ calls[1].pc = "idle"

\* C30: on storage that works, the refresh action of the navigation loop
\* invalidates current_url and nothing else: after it the key of current_url is
\* in neither tier and current_url is what it was; the key is still absent
\* when the loop comes round, however much time passes; and the
\* fetch_html_cached(current_url) of that iteration finds nothing and issues a
\* request.
C30_RefreshThenFetch ==
    [][/\ ret'.op = "invalidate"
          => /\ ret'.url = nav.current_url
             /\ nav'.current_url = nav.current_url
             /\ KeyAbsent(Current', nav.current_url)
       /\ AfterRefresh => KeyAbsent(Current, nav.current_url)
       /\ (AfterRefresh /\ calls'[1].pc # "idle")
          => /\ calls'[1].url = nav.current_url
             /\ calls'[1].lookups = 1
             /\ calls'[1].pc = "fetch"
             /\ calls'[1].fetches = 1
             /\ nav' = nav]_vars

\* C30 witness: a listing of current_url that was fresh in both tiers was
\* refreshed, and the next call for current_url is waiting for its request
C30_Witness ==
    /\ nav.action = "refresh"
    /\ calls[1].pc = "fetch"
    /\ calls[1].url = nav.current_url
    /\ calls[1].lookups = 1
    /\ KeyAbsent(calls[1].pre, nav.current_url)
    /\ KeyAbsent(Current, nav.current_url)
    /\ now >= 1

\* C31: against a server that answers with client errors only, the statuses
\* 400, 429 and 499 come out as ConnectionError and are retried: the call
\* sleeps 2^attempt and asks again while attempts are left, and ends with
\* ConnectionError only after max_retries attempts and max_retries - 1 sleeps;
\* 401, 403 and 404 end the call at the attempt that met them, with no sleep
\* after it.
C31_ClientErrorRetried ==
    calls[1].kind = "retry"
    => /\ calls[1].last_outcome
             \subseteq {"ok", "ConnectionError", "AuthenticationError", "NotFoundError"}
       /\ calls[1].last_outcome = Some("ConnectionError")
          => \/ /\ calls[1].pc = "sleep"
                /\ calls[1].fetches < calls[1].max_retries
                /\ calls[1].sleeps = Backoff(calls[1].fetches)
             \/ /\ calls[1].pc = "fetch"
                /\ calls[1].fetches <= calls[1].max_retries
                /\ calls[1].sleeps = Backoff(calls[1].fetches - 1)
             \/ /\ calls[1].pc = "done"
                /\ calls[1].fetches = calls[1].max_retries
                /\ calls[1].sleeps = Backoff(calls[1].max_retries - 1)
                /\ calls[1].result = Raised("ConnectionError")
       /\ \A exc \in Terminal :
             calls[1].last_outcome = Some(exc)
             => /\ calls[1].pc = "done"
                /\ calls[1].result = Raised(exc)
                /\ Len(calls[1].sleeps) = calls[1].fetches - 1

\* C31 witness: three client errors in a row have used up the three attempts of
\* a call, with sleeps of 1 and 2 seconds between them
C31_Witness ==
    /\ calls[1].pc = "done"
    /\ calls[1].kind = "retry"
    /\ calls[1].max_retries = 3
    /\ calls[1].fetches = 3
    /\ calls[1].sleeps = <<1, 2>>
    /\ calls[1].last_outcome = Some("ConnectionError")
    /\ calls[1].result = Raised("ConnectionError")

\* caller 1's call has been cancelled
Cancelled == calls[1].last_outcome = Some("CancelledError")

\* C32: a getListing call that is cancelled while it waits for a request or
\* sleeps between two attempts ends there with the cancellation: the step that
\* cancels it issues no request, starts no sleep and leaves both tiers as they
\* are, and from then on the call makes no attempt, sleeps no more and writes
\* nothing.
C32_CancelStopsCall ==
    [][/\ (~Cancelled /\ Cancelled')
          => /\ calls[1].pc \in {"fetch", "sleep"}
             /\ calls'[1].pc = "done"
             /\ calls'[1].result = Raised("CancelledError")
             /\ calls'[1].fetches = calls[1].fetches
             /\ calls'[1].sleeps = calls[1].sleeps
             /\ Current' = Current
       /\ Cancelled
          => /\ calls[1].pc = "done"
             /\ calls[1].result = Raised("CancelledError")
             /\ Cancelled' => (calls' = calls /\ Current' = Current)]_vars

\* C32 witness: the call was cancelled in its second request, after one sleep,
\* having found nothing in a cache that is still empty
C32_Witness ==
    /\ Cancelled
    /\ calls[1].kind = "cached"
    /\ calls[1].pc = "done"
    /\ calls[1].fetches = 2
    /\ calls[1].sleeps = <<1>>
    /\ KeyAbsent(Current, calls[1].url)

\* every entry of dict sits under the key of the url it records
KeyedByUrl(dict) ==
    \A k \in DOMAIN dict :
        /\ dict[k].url \in Urls
        /\ k = _url_to_hash(dict[k].url)

\* C33: whatever operations run and whatever storage faults they meet, every
\* entry of the in-process map and of the durable document sits under the key
\* derived from the url it records, before and after every operation; an entry
\* that a lookup copies from the file into the map keeps its key.
C33_KeyEntryConsistency ==
    /\ KeyedByUrl(memory_cache)
    /\ KeyedByUrl(DurableDoc(cache_file))
    /\ KeyedByUrl(ret.pre.mem)
    /\ KeyedByUrl(DurableDoc(ret.pre.file))
    /\ ret.op = "lookup"
       => \A k \in (DOMAIN memory_cache) \ (DOMAIN ret.pre.mem) :
             /\ k = _url_to_hash(ret.url)
             /\ memory_cache[k] = DurableDoc(ret.pre.file)[k]

\* C33 witness: a lookup has copied the entry of one url from a file that holds
\* the entries of both urls into a map that did not hold it
C33_Witness ==
    /\ ret.op = "lookup"
    /\ ret.val.hit
    /\ _url_to_hash(ret.url) \notin DOMAIN ret.pre.mem
    /\ _url_to_hash(ret.url) \in DOMAIN memory_cache
    /\ DOMAIN DurableDoc(cache_file) = {_url_to_hash(u) : u \in Urls}

\* before and after hold the same keys with the same entries, key apart
SameBut(before, after, key) ==
    /\ (DOMAIN after) \ {key} = (DOMAIN before) \ {key}
    /\ \A k \in (DOMAIN before) \ {key} : after[k] = before[k]

\* C34: on storage that works, a lookup, a put and an invalidate of one url
\* leave every other key of the in-process map and of the durable document
\* with the entry it had, and add no other key, although the file is written
\* anew as a whole.
C34_SingleKeyFrame ==
    ret.op \in {"lookup", "put", "invalidate"}
    => /\ SameBut(ret.pre.mem, memory_cache, _url_to_hash(ret.url))
       /\ SameBut(DurableDoc(ret.pre.file), DurableDoc(cache_file), _url_to_hash(ret.url))

\* C34 witness: a lookup has removed its expired entry from the file, which has
\* been written anew and still holds the expired entry of the other url
C34_Witness ==
    /\ ret.op = "lookup"
    /\ _url_to_hash(ret.url) \in DOMAIN DurableDoc(ret.pre.file)
    /\ _url_to_hash(ret.url) \notin DOMAIN DurableDoc(cache_file)
    /\ \E u \in Urls \ {ret.url} :
          /\ _url_to_hash(u) \in DOMAIN DurableDoc(cache_file)
          /\ ~IsFresh(DurableDoc(cache_file)[_url_to_hash(u)])
          /\ _url_to_hash(u) \in DOMAIN memory_cache

\* C35: only a put gives an entry its timestamp, the time of the put; every
\* other operation leaves each tier's entry of a url as it is, drops it, or
\* copies the file's entry into the in-process map unchanged. A lookup that
\* hits serves an entry at most ttl old and leaves it in the map with the
\* timestamp it had, and a lookup of a url whose entries are all older than ttl
\* misses, however many lookups have hit before.
C35_ReadsKeepTimestamp ==
    [][\A url \in Urls :
          LET before == TierEntries(Current, url)
              after == TierEntries(Current', url)
              looked == ret'.op = "lookup" /\ ret'.url = url
          IN  /\ (ret'.op = "put" /\ ret'.url = url)
                 => \A e \in EntriesFor(Current', url) : e.timestamp = now
              /\ ~(ret'.op = "put" /\ ret'.url = url)
                 => /\ after.mem \subseteq (before.mem \cup before.file)
                    /\ after.file \subseteq before.file
              /\ (looked /\ ret'.val.hit)
                 => \E e \in EntriesFor(Current, url) :
                       /\ now - e.timestamp <= ttl_seconds
                       /\ HitOf(ret'.val, e)
                       /\ after.mem = {e}
              /\ (looked /\ \A e \in EntriesFor(Current, url) :
                                 now - e.timestamp > ttl_seconds)
                 => ~ret'.val.hit]_vars

\* C35 witness: an entry put at time 0 was found in the file a second later by
\* a lookup that hit; it is in the in-process map with timestamp 0
C35_Witness ==
    /\ ret.op = "lookup"
    /\ ret.val.hit
    /\ now = 1
    /\ _url_to_hash(ret.url) \notin DOMAIN ret.pre.mem
    /\ memory_cache[_url_to_hash(ret.url)].timestamp = 0
    /\ DurableDoc(cache_file)[_url_to_hash(ret.url)].timestamp = 0

\* C36 as claimed: the listing that a load task created by a refresh ends with
\* comes from a request that the task itself has issued, never from the cache.
C36_RefreshLoadsFresh ==
    \A c \in Callers :
        (calls[c].pc = "done" /\ calls[c].result.kind = "return")
        => calls[c].fetches >= 1

\* C37 as claimed: for every max_retries, 0 included, fetch_html_with_retry ends
\* either returning the body of an attempt that succeeded or raising the typed
\* fetch error of the last attempt it made.
C37_TwoEndings ==
    (calls[1].kind = "retry" /\ calls[1].pc = "done")
    => \/ /\ calls[1].result.kind = "return"
          /\ calls[1].last_outcome = Some("ok")
       \/ /\ calls[1].result.kind = "raise"
          /\ calls[1].result.exc \in FTPClientError
          /\ calls[1].last_outcome = Some(calls[1].result.exc)

\* C38: the first get_cache_manager call of a process constructs the manager
\* with the ttl it is given and an empty in-process map; every later call,
\* whatever ttl it is given, returns that manager and leaves its ttl and its
\* in-process map as they are, so the ttl of a process changes with no step
\* but the start of a process.
C38_SingletonTtl ==
    [][/\ ret'.op = "start"
          => /\ ttl_seconds' = ret'.val.arg
             /\ memory_cache' = EmptyDict
       /\ ret'.op = "get_cache_manager"
          => /\ ttl_seconds' = ttl_seconds
             /\ memory_cache' = memory_cache
             /\ cache_file' = cache_file
             /\ ret'.val.instance
                   = [ttl_seconds |-> ttl_seconds, memory_cache |-> memory_cache]
       /\ ttl_seconds' # ttl_seconds => ret'.op = "start"]_vars

\* C38 witness: a manager constructed with ttl 0 that holds an entry has been
\* asked for with ttl 1, and still has ttl 0 and the entry
C38_Witness ==
    /\ ret.op = "get_cache_manager"
    /\ ret.val.arg = 1
    /\ ttl_seconds = 0
    /\ ret.val.instance.ttl_seconds = 0
    /\ ret.val.instance.memory_cache # EmptyDict
    /\ memory_cache = ret.val.instance.memory_cache

\* the urls of the folders of the listing that caller 1 has been given
FolderUrls == {calls[1].result.folders[i].url : i \in 1..Len(calls[1].result.folders)}

\* C39: in the navigation loop current_url and the history change only in the
\* step that follows a listing, when a folder is selected (the url left behind
\* is appended to the history and the folder's url becomes current_url) or a
\* bookmark is followed (its url becomes current_url and is appended); a failed
\* fetch, a refresh, a download, a batch action and the play of a file leave both as they
\* are, and every request of the loop, the one after a failure included, is
\* for current_url.
C39_NavigationFrame ==
    [][/\ (nav'.current_url # nav.current_url \/ nav'.history # nav.history)
          => /\ calls[1].pc = "done"
             /\ calls[1].result.kind = "return"
             /\ calls'[1].pc = "idle"
             /\ \/ /\ nav'.action = "select"
                   /\ nav'.current_url \in FolderUrls
                   /\ nav'.history = Append(nav.history, nav.current_url)
                \/ /\ nav'.action = "bookmark"
                   /\ nav'.history = Append(nav.history, nav'.current_url)
       /\ (calls[1].pc = "done" /\ calls[1].result.kind = "raise" /\ calls'[1] # calls[1])
          => /\ nav' = nav
             /\ calls'[1].pc = "idle"
       /\ nav'.action \in {"refresh"} \cup FileActions
          => (nav'.current_url = nav.current_url /\ nav'.history = nav.history)
       /\ calls'[1].pc # "idle" => calls'[1].url = nav'.current_url]_vars

\* C39 witness: a folder was selected in the listing of the server root; the
\* root is on the history and the loop is requesting the folder
C39_Witness ==
    /\ nav.action = "select"
    /\ nav.history = <<ServerUrl>>
    /\ nav.current_url = "http://h/"
    /\ calls[1].pc = "fetch"
    /\ calls[1].url = nav.current_url

\* no two bookmarks of the list have names that are equal ignoring case
UniqueNames(bookmarks) ==
    \A i \in 1..Len(bookmarks), j \in 1..Len(bookmarks) :
        lower(bookmarks[i].name) = lower(bookmarks[j].name) => i = j

\* C40: after any sequence of add_bookmark, remove_bookmark, update_bookmark,
\* clear_all_bookmarks and import_bookmarks (merge or replace) no two stored
\* bookmarks, in the manager's list and in the bookmarks file, have names
\* that are equal ignoring case; and an add_bookmark with a name that was
\* present (ignoring case) has returned False and left the list as it was.
C40_UniqueBookmarkNames ==
    /\ \A bookmarks \in bookmark_manager._bookmarks_cache \cup bookmark_manager.bookmarks_file :
           UniqueNames(bookmarks)
    /\ (ret.op = "add_bookmark" /\ NameIn(Loaded(ret.pre), ret.val.name))
       => /\ ret.val.result = FALSE
          /\ Loaded(bookmark_manager) = Loaded(ret.pre)
          /\ bookmark_manager.bookmarks_file = ret.pre.bookmarks_file

====
